---- MODULE Spec2Model ----
(***************************************************************************)
(* claudine-proxy: the chat-completions endpoint handler                   *)
(* (internal/proxy/chat_completions.go, internal/proxy/json.go) driving    *)
(* the adapter's chunk iterator, which folds the upstream (Anthropic) SSE  *)
(* events into OpenAI chunks (spec.md 4.3), and the error normalisation    *)
(* (anthropicclaude/errors.go, response.go).                               *)
(*                                                                         *)
(* One request is one behaviour: ServeHTTP decodes the body, picks the     *)
(* buffered or the streaming path, calls the adapter and writes to the     *)
(* client.  The request context is cancelled by another goroutine, so      *)
(* Cancel interleaves with every step of the handler.                      *)
(*                                                                         *)
(* SpecT applies the adapter's functions and Authorizer.Exchange to their  *)
(* inputs; SpecApp is App.Start with its monitor goroutine (internal/app); *)
(* SpecLogin is runAnthropicOAuth with the goroutine and the select of     *)
(* readSecureInput (cmd/claudine/commands/auth.go).                        *)
(***************************************************************************)
EXTENDS Integers, Sequences, FiniteSets, TLC

VARIABLES
    pc,        \* the handler's position in ServeHTTP / writeResponse / streamResponse
    ctxErr,    \* ctx.Err() != nil : the request context is cancelled
    status,    \* the HTTP status sent to the client, 0 while none is sent
    ctype,     \* the Content-Type header set on the response, "" while unset
    log,       \* every write the handler attempted on the ResponseWriter, in order
    adapterErr,\* the error ProcessRequest / ProcessStreamingRequest returned (NoErr if none)
    item,      \* the (chunk, err) pair of the current iteration of `for chunk, err := range stream`
    yielded,   \* every item the chunk iterator yielded, in order
    up,        \* the upstream SSE stream: protocol position of the events sent so far
    st,        \* the stream translator's fold state
    nEvents,   \* number of upstream events consumed
    req,       \* outcome of decoding the request body: which path ServeHTTP takes
    adapterRet,\* "none" until the adapter call returns, then "ok" or "err" ("panic": it panicked)
    pulled,    \* one entry per item the loop asked the iterator for: ctx.Err() != nil then
    tin,       \* the adapter function applied and its argument (Idle while none is)
    tout,      \* what that function returned, with the function's name as field op
    appPc,     \* App.Start: the position of the calling goroutine ("none": not called)
    appCtxDone,\* App.Start: the caller's context is cancelled
    gCtxDone,  \* App.Start: the errgroup's context is cancelled
    proxyErrCh,\* App.Start: the proxy's error channel ("empty", a value, "drained")
    monitor,   \* App.Start: the goroutine of g.Go: "select", then what it returned
    shutdownCtx,   \* App.Start: the shutdown context: "none", "live", "done"
    shutdownCalls, \* App.Start: one entry per call of a.proxy.Shutdown
    errs,      \* App.Start: the errors collected for errors.Join
    startRet,  \* App.Start: what Start returned
    loginPc,   \* runAnthropicOAuth / readSecureInput: position of the caller
    loginCtxDone,  \* the command's context is cancelled
    reader,    \* the goroutine of readSecureInput: "reading", "send", "done"
    readValue, \* what term.ReadPassword returned to that goroutine
    resultCh,  \* the buffered channel resultCh
    readRet,   \* what readSecureInput returned
    loginRet   \* what runAnthropicOAuth returned

\* the state of the handler serving one request
hvars == <<pc, ctxErr, status, ctype, log, adapterErr, item, yielded, up, st, nEvents,
           req, adapterRet, pulled>>
\* the adapter function under application
tvars == <<tin, tout>>
\* App.Start
avars == <<appPc, appCtxDone, gCtxDone, proxyErrCh, monitor, shutdownCtx, shutdownCalls, errs,
           startRet>>
\* runAnthropicOAuth
lvars == <<loginPc, loginCtxDone, reader, readValue, resultCh, readRet, loginRet>>

vars == <<hvars, tvars, avars, lvars>>

\* an error of App.Start by where it arose, and what Start returns: nil, the
\* startup error or the join of the collected errors
AppError(from, err) == [from |-> from, err |-> err]
StartRet(kind, es) == [kind |-> kind, errs |-> es]

\* App.Start is not called
AppIdle ==
    /\ appPc = "none"
    /\ appCtxDone = FALSE
    /\ gCtxDone = FALSE
    /\ proxyErrCh = "none"
    /\ monitor = "none"
    /\ shutdownCtx = "none"
    /\ shutdownCalls = <<>>
    /\ errs = <<>>
    /\ startRet = StartRet("none", <<>>)

\* runAnthropicOAuth is not called
LoginIdle ==
    /\ loginPc = "none"
    /\ loginCtxDone = FALSE
    /\ reader = "none"
    /\ readValue = [value |-> <<>>, err |-> "none"]
    /\ resultCh = <<>>
    /\ readRet = [value |-> <<>>, err |-> "none"]
    /\ loginRet = [ok |-> FALSE, err |-> "pending"]

\* no adapter function is under application
Idle == [op |-> "idle"]

\* Bound: upstream events consumed per stream.
MaxEvents == 9
\* Bounds: messages per request, content parts per message, tools per request.
MaxMessages == 4
MaxParts == 2
MaxTools == 2
MaxBlocks == 3
TokenBits == 4

-----------------------------------------------------------------------------
(* HTTP status codes used by the handler (net/http constants).             *)
StatusOK == 200
StatusBadRequest == 400
StatusUnauthorized == 401
StatusForbidden == 403
StatusTooManyRequests == 429
StatusInternalServerError == 500

\* http.StatusText for the codes the handler passes to it
StatusText(code) ==
    CASE code = 400 -> "Bad Request"
      [] code = 413 -> "Request Entity Too Large"
      [] code = 500 -> "Internal Server Error"
      [] OTHER -> ""

-----------------------------------------------------------------------------
(* Error envelopes: openaiadapter.ErrorResponse {error:{message,type}}     *)

Envelope(type, message) == [t |-> "envelope", type |-> type, message |-> message]

NoErr == [t |-> "none"]
\* an error value that is an *ErrorResponse (errors.As succeeds)
TypedErr(env) == [t |-> "typed", env |-> env]
\* any other error value; msg is err.Error()
UntypedErr(msg) == [t |-> "untyped", msg |-> msg]

\* client error types of the taxonomy, and one outside it
ClientErrorTypes ==
    {"invalid_request_error", "authentication_error", "permission_denied",
     "rate_limit_error", "insufficient_quota", "server_error", "api_error"}
Messages == {"bad", "busy"}

\* errors the adapter may return from ProcessRequest / ProcessStreamingRequest
AdapterErrors ==
    {TypedErr(Envelope(ty, m)) : ty \in ClientErrorTypes \cup {"teapot"}, m \in Messages}
      \cup {UntypedErr("boom")}

-----------------------------------------------------------------------------
(* json.go                                                                 *)

\* a switch that lost the insufficient_quota case: that type falls to the default
StatusForType_NoQuotaCase(type) ==
    CASE type = "invalid_request_error" -> 400
      [] type = "authentication_error"  -> 401
      [] type = "permission_denied"     -> 403
      [] type = "rate_limit_error"      -> 429
      [] OTHER                          -> 500

\* writeJSONOpenAIError: the switch on errResp.Err.Type
StatusForType(type) ==
    CASE type = "invalid_request_error" -> StatusBadRequest
      [] type = "authentication_error"  -> StatusUnauthorized
      [] type = "permission_denied"     -> StatusForbidden
      [] type = "rate_limit_error"      -> StatusTooManyRequests
      [] type = "insufficient_quota"    -> StatusTooManyRequests
      [] type = "server_error"          -> StatusInternalServerError
      [] type = "api_error"             -> StatusInternalServerError
      [] OTHER                          -> StatusInternalServerError

\* One attempted write on the ResponseWriter.  ok: the write reached the client;
\* ctx: the context was already cancelled when the write was attempted.
Write(op, payload, st0, ok) ==
    [op |-> op, payload |-> payload, status |-> st0, ok |-> ok, ctx |-> ctxErr]

\* writeJSON: Content-Type, WriteHeader(status), Encode(data)
writeJSON(data, code, ok) ==
    /\ ctype' = "application/json"
    /\ status' = IF status = 0 THEN code ELSE status
    /\ log' = Append(log, Write("json", data, code, ok))

\* writeJSONOpenAIError: status from the type, then writeJSON
writeJSONOpenAIError(env, ok) ==
    writeJSON(env, StatusForType(env.type), ok)

-----------------------------------------------------------------------------
(* anthropicclaude: finish reasons and error types                         *)

StopReasons ==
    {"end_turn", "max_tokens", "stop_sequence", "tool_use", "refusal", "pause_turn", ""}

\* a mapping that reports a refusal as an ordinary stop
toFinishReason_RefusalAsStop(stopReason) ==
    CASE stopReason = "end_turn"      -> "stop"
      [] stopReason = "max_tokens"    -> "length"
      [] stopReason = "stop_sequence" -> "stop"
      [] stopReason = "tool_use"      -> "tool_calls"
      [] OTHER                        -> "stop"

\* toFinishReason
toFinishReason(stopReason) ==
    CASE stopReason = "end_turn"      -> "stop"
      [] stopReason = "max_tokens"    -> "length"
      [] stopReason = "stop_sequence" -> "stop"
      [] stopReason = "tool_use"      -> "tool_calls"
      [] stopReason = "refusal"       -> "content_filter"
      [] OTHER                        -> "stop"

\* a mapping whose default branch returns the zero value
toFinishReasonStreaming_EmptyDefault(stopReason) ==
    CASE stopReason = "end_turn"      -> "stop"
      [] stopReason = "max_tokens"    -> "length"
      [] stopReason = "stop_sequence" -> "stop"
      [] stopReason = "tool_use"      -> "tool_calls"
      [] stopReason = "refusal"       -> "content_filter"
      [] OTHER                        -> ""

\* toFinishReasonStreaming
toFinishReasonStreaming(stopReason) ==
    CASE stopReason = "end_turn"      -> "stop"
      [] stopReason = "max_tokens"    -> "length"
      [] stopReason = "stop_sequence" -> "stop"
      [] stopReason = "tool_use"      -> "tool_calls"
      [] stopReason = "refusal"       -> "content_filter"
      [] OTHER                        -> "stop"

\* a switch that lost the billing_error case: that type falls to the default
mapAnthropicErrorType_NoBillingCase(anthropicType) ==
    CASE anthropicType = "overloaded_error"      -> "server_error"
      [] anthropicType = "rate_limit_error"      -> "rate_limit_error"
      [] anthropicType = "invalid_request_error" -> "invalid_request_error"
      [] anthropicType = "request_too_large"     -> "invalid_request_error"
      [] anthropicType = "authentication_error"  -> "authentication_error"
      [] anthropicType = "permission_error"      -> "permission_denied"
      [] anthropicType = "not_found_error"       -> "invalid_request_error"
      [] anthropicType = "timeout_error"         -> "server_error"
      [] anthropicType = "api_error"             -> "api_error"
      [] OTHER                                   -> "api_error"

\* mapAnthropicErrorType
mapAnthropicErrorType(anthropicType) ==
    CASE anthropicType = "overloaded_error"      -> "server_error"
      [] anthropicType = "rate_limit_error"      -> "rate_limit_error"
      [] anthropicType = "invalid_request_error" -> "invalid_request_error"
      [] anthropicType = "request_too_large"     -> "invalid_request_error"
      [] anthropicType = "authentication_error"  -> "authentication_error"
      [] anthropicType = "permission_error"      -> "permission_denied"
      [] anthropicType = "not_found_error"       -> "invalid_request_error"
      [] anthropicType = "timeout_error"         -> "server_error"
      [] anthropicType = "api_error"             -> "api_error"
      [] anthropicType = "billing_error"         -> "insufficient_quota"
      [] OTHER                                   -> "api_error"

\* mapAnthropicErrorType as internal/openaiadapter/anthropicclaude/errors.go has it
mapAnthropicErrorType_errors_go(anthropicType) ==
    CASE anthropicType = "overloaded_error"      -> "server_error"
      [] anthropicType = "rate_limit_error"      -> "rate_limit_error"
      [] anthropicType = "invalid_request_error" -> "invalid_request_error"
      [] anthropicType = "authentication_error"  -> "authentication_error"
      [] anthropicType = "permission_error"      -> "permission_denied"
      [] anthropicType = "not_found_error"       -> "invalid_request_error"
      [] anthropicType = "timeout_error"         -> "server_error"
      [] anthropicType = "api_error"             -> "api_error"
      [] anthropicType = "billing_error"         -> "insufficient_quota"
      [] OTHER                                   -> "api_error"

\* the two revisions of errors.go in the source tree
Revisions == {"part_006", "errors.go"}

\* error types of the Anthropic API, and one it does not document
AnthropicErrorTypes ==
    {"overloaded_error", "rate_limit_error", "invalid_request_error", "request_too_large",
     "authentication_error", "permission_error", "not_found_error", "timeout_error",
     "api_error", "billing_error", "mystery_error"}

(* Errors toChatCompletionError is given.                                  *)
(*   api:    *anthropic.Error of a non-streaming call; RawJSON() is the    *)
(*           upstream error body                                           *)
(*   stream: the SDK's "received error while streaming: <json>" error      *)
(*   other:  any other error (network, timeout, a failed translation)      *)
(* parses: the JSON unmarshals into anthropic.ErrorResponse, whose         *)
(* error.type and error.message are type and message; text is err.Error(). *)
SDKError(kind, parses, type, message, text) ==
    [kind |-> kind, parses |-> parses, type |-> type, message |-> message, text |-> text]

\* a failure that is no answer of the upstream API
PlainError(text) == SDKError("other", FALSE, "", "", text)
\* the nil error, and the nil *ErrorResponse returned for it
NilError == SDKError("nil", FALSE, "", "", "")
NilResponse == [t |-> "nil", type |-> "", message |-> ""]

SDKErrors ==
    {SDKError(k, TRUE, ty, m, "raw") : k \in {"api", "stream"}, ty \in AnthropicErrorTypes,
                                       m \in Messages}
      \cup {SDKError(k, FALSE, "", "", "raw") : k \in {"api", "stream"}}
      \cup {PlainError("dial tcp: timeout"), NilError}

\* a normalisation that treats an upstream API error whose JSON does not parse like
\* a network failure
toChatCompletionError_UnparsedAsServerError(err) ==
    CASE err.kind = "nil" -> NilResponse
      [] err.kind \in {"api", "stream"} /\ err.parses ->
           Envelope(mapAnthropicErrorType(err.type), err.message)
      [] OTHER -> Envelope("server_error", err.text)

\* toChatCompletionError (src/unnamed/part_006)
toChatCompletionError(err) ==
    CASE err.kind = "nil" -> NilResponse
      [] err.kind = "api" /\ err.parses ->
           Envelope(mapAnthropicErrorType(err.type), err.message)
      [] err.kind = "api" /\ ~err.parses -> Envelope("api_error", err.text)
      [] err.kind = "stream" /\ err.parses ->
           Envelope(mapAnthropicErrorType(err.type), err.message)
      [] OTHER -> Envelope("server_error", err.text)

\* toChatCompletionError (internal/openaiadapter/anthropicclaude/errors.go)
toChatCompletionError_errors_go(err) ==
    CASE err.kind = "nil" -> NilResponse
      [] err.kind = "api" /\ err.parses ->
           Envelope(mapAnthropicErrorType_errors_go(err.type), err.message)
      [] err.kind = "api" /\ ~err.parses -> Envelope("api_error", err.text)
      [] err.kind = "stream" /\ err.parses ->
           Envelope(mapAnthropicErrorType_errors_go(err.type), err.message)
      [] OTHER -> Envelope("server_error", err.text)

\* upstream error types an `error` event of the stream carries in this model
UpstreamErrorTypes == {"overloaded_error", "authentication_error", "mystery_error"}

-----------------------------------------------------------------------------
(* The upstream event stream (Anthropic Messages SSE protocol)             *)

BlockKinds == {"text", "thinking", "tool_use"}

DeltaOf(kind) ==
    CASE kind = "text"     -> "text_delta"
      [] kind = "thinking" -> "thinking_delta"
      [] kind = "tool_use" -> "input_json_delta"

Event(type, index, kind, stop, err) ==
    [type |-> type, index |-> index, kind |-> kind, stop |-> stop, err |-> err]

\* protocol position: phase, the open content block (kind, index), the next
\* block index, the number of tool_use blocks opened so far, and whether the
\* stream has been read to its end
UpInit ==
    [phase |-> "init", open |-> "none", openIdx |-> -1, nextBlock |-> 0, toolBlocks |-> 0,
     eof |-> FALSE]

\* the events the upstream may send next from protocol position u
NextEvents(u) ==
    CASE u.phase = "init" ->
           {Event("message_start", -1, "", "", "")}
             \cup {Event("error", -1, "", "", e) : e \in UpstreamErrorTypes}
      [] u.phase = "body" /\ u.open = "none" ->
           {Event("content_block_start", u.nextBlock, k, "", "") : k \in BlockKinds}
             \cup {Event("message_delta", -1, "", s, "") : s \in StopReasons \ {""}}
             \cup {Event("message_stop", -1, "", "", "")}
             \cup {Event("ping", -1, "", "", "")}
             \cup {Event("error", -1, "", "", e) : e \in UpstreamErrorTypes}
      [] u.phase = "body" /\ u.open # "none" ->
           {Event("content_block_delta", u.openIdx, DeltaOf(u.open), "", ""),
            Event("content_block_stop", u.openIdx, "", "", ""),
            Event("ping", -1, "", "", "")}
             \cup {Event("error", -1, "", "", e) : e \in UpstreamErrorTypes}
      [] u.phase = "delta_done" ->
           {Event("message_stop", -1, "", "", "")}
      [] OTHER -> {}

\* the protocol position after event ev
UpAfter(u, ev) ==
    CASE ev.type = "message_start" -> [u EXCEPT !.phase = "body"]
      [] ev.type = "content_block_start" ->
           [u EXCEPT !.open = ev.kind, !.openIdx = ev.index, !.nextBlock = @ + 1,
                     !.toolBlocks = IF ev.kind = "tool_use" THEN @ + 1 ELSE @]
      [] ev.type = "content_block_stop" -> [u EXCEPT !.open = "none", !.openIdx = -1]
      [] ev.type = "message_delta" -> [u EXCEPT !.phase = "delta_done"]
      [] ev.type = "message_stop" -> [u EXCEPT !.phase = "stopped"]
      [] ev.type = "error" -> [u EXCEPT !.phase = "failed"]
      [] OTHER -> u

-----------------------------------------------------------------------------
(* The stream translator (spec.md 4.3): one fold state per stream          *)

Chunk(role, content, toolIndex, toolId, args, finish) ==
    [t |-> "chunk", role |-> role, content |-> content, toolIndex |-> toolIndex,
     toolId |-> toolId, args |-> args, finish |-> finish]

FoldInit ==
    [roleEmitted |-> FALSE, nextToolIndex |-> 0, blockToTool |-> {},
     active |-> "none", finalStopReason |-> ""]

IsMapped(s, b) == \E p \in s.blockToTool : p[1] = b
ToolIndexOf(s, b) == (CHOOSE p \in s.blockToTool : p[1] = b)[2]

\* the tool_use id the upstream gives block b
ToolIdOf(b) == 100 + b

\* a fold that records the upstream block index as the tool-call index of the block
FoldState_IndexByBlock(s, ev) ==
    CASE ev.type = "message_start" -> [s EXCEPT !.roleEmitted = TRUE]
      [] ev.type = "content_block_start" /\ ev.kind = "tool_use" ->
           [s EXCEPT !.blockToTool = @ \cup {<<ev.index, ev.index>>},
                     !.nextToolIndex = @ + 1,
                     !.active = "tool_use"]
      [] ev.type = "content_block_start" /\ ev.kind # "tool_use" ->
           [s EXCEPT !.active = ev.kind]
      [] ev.type = "content_block_stop" -> [s EXCEPT !.active = "none"]
      [] ev.type = "message_delta" -> [s EXCEPT !.finalStopReason = ev.stop]
      [] OTHER -> s

\* state change of the fold for one event
FoldState(s, ev) ==
    CASE ev.type = "message_start" -> [s EXCEPT !.roleEmitted = TRUE]
      [] ev.type = "content_block_start" /\ ev.kind = "tool_use" ->
           [s EXCEPT !.blockToTool = @ \cup {<<ev.index, s.nextToolIndex>>},
                     !.nextToolIndex = @ + 1,
                     !.active = "tool_use"]
      [] ev.type = "content_block_start" /\ ev.kind # "tool_use" ->
           [s EXCEPT !.active = ev.kind]
      [] ev.type = "content_block_stop" -> [s EXCEPT !.active = "none"]
      [] ev.type = "message_delta" -> [s EXCEPT !.finalStopReason = ev.stop]
      [] OTHER -> s

\* a translator that sends the role with the first content instead of message_start
EmitMessageStart_NoRole(s) == <<Chunk(FALSE, "", -1, -1, "", "")>>

\* message_start: one chunk with delta.role = "assistant" and empty content
EmitMessageStart(s) ==
    IF s.roleEmitted THEN <<>> ELSE <<Chunk(TRUE, "", -1, -1, "", "")>>

\* content_block_start(tool_use): the tool call's index, id and name, empty arguments
EmitToolStart(s, ev) ==
    <<Chunk(FALSE, "", s.nextToolIndex, ToolIdOf(ev.index), "", "")>>

\* content_block_delta(text_delta): the text
EmitTextDelta(s, ev) == <<Chunk(FALSE, "txt", -1, -1, "", "")>>

\* content_block_delta(input_json_delta): the fragment under the block's tool-call index
EmitInputJSONDelta(s, ev) ==
    IF IsMapped(s, ev.index)
      THEN <<Chunk(FALSE, "", ToolIndexOf(s, ev.index), -1, "frag", "")>>
      ELSE <<>>

\* message_stop: the terminal chunk, empty delta, finish_reason from final_stop_reason
EmitMessageStop(s) ==
    <<Chunk(FALSE, "", -1, -1, "", toFinishReasonStreaming(s.finalStopReason))>>

\* chunks emitted by the fold for one event: a sequence of zero or one chunk
FoldEmit(s, ev) ==
    CASE ev.type = "message_start" -> EmitMessageStart(s)
      [] ev.type = "content_block_start" /\ ev.kind = "tool_use" -> EmitToolStart(s, ev)
      [] ev.type = "content_block_delta" /\ ev.kind = "text_delta" -> EmitTextDelta(s, ev)
      [] ev.type = "content_block_delta" /\ ev.kind = "input_json_delta" ->
           EmitInputJSONDelta(s, ev)
      [] ev.type = "message_stop" -> EmitMessageStop(s)
      [] OTHER -> <<>>

\* toChatCompletionError for an `error` event of the stream
StreamError(ev) == TypedErr(Envelope(mapAnthropicErrorType(ev.err), "busy"))

\* items of the iterator: a chunk (with the upstream block it comes from) or an error
ChunkItem(c, b) == [t |-> "chunk", chunk |-> c, err |-> NoErr, block |-> b]
ErrItem(e) == [t |-> "error", chunk |-> NoErr, err |-> e, block |-> -1]
NoItem == [t |-> "none", chunk |-> NoErr, err |-> NoErr, block |-> -1]

-----------------------------------------------------------------------------
(* SSE writer (NewSSEWriter, WriteData, WriteEvent, WriteRaw)              *)

\* NewSSEWriter: the stream headers are set before any body byte
NewSSEHeaders == ctype' = "text/event-stream"

\* a write of the SSE writer: the first body byte sends status 200
sseWrite(op, payload, ok) ==
    /\ status' = IF status = 0 /\ ok THEN StatusOK ELSE status
    /\ log' = Append(log, Write(op, payload, StatusOK, ok))

WriteData(v, ok) == sseWrite("data", v, ok)
WriteEvent(name, ok) == sseWrite("event", [t |-> "name", name |-> name], ok)
WriteRaw(text, ok) == sseWrite("raw", [t |-> "raw", text |-> text], ok)

-----------------------------------------------------------------------------
(* The handler                                                             *)

Init ==
    /\ pc = "serve"
    /\ ctxErr \in BOOLEAN
    /\ status = 0
    /\ ctype = ""
    /\ log = <<>>
    /\ adapterErr = NoErr
    /\ item = NoItem
    /\ yielded = <<>>
    /\ up = UpInit
    /\ st = FoldInit
    /\ nEvents = 0
    /\ req = "none"
    /\ adapterRet = "none"
    /\ pulled = <<>>
    /\ tin = Idle
    /\ tout = Idle
    /\ AppIdle
    /\ LoginIdle

\* the request context is cancelled (client disconnect) while the handler runs
Cancel ==
    /\ UNCHANGED <<tvars, avars, lvars>>
    /\ pc # "done"
    /\ ~ctxErr
    /\ ctxErr' = TRUE
    /\ UNCHANGED <<pc, status, ctype, log, adapterErr, item, yielded, up, st, nEvents, req,
                   adapterRet, pulled>>

\* ServeHTTP: the body exceeds the size limit (*http.MaxBytesError)
DecodeTooLarge ==
    /\ UNCHANGED <<tvars, avars, lvars>>
    /\ pc = "serve"
    /\ \E ok \in BOOLEAN :
         writeJSONOpenAIError(Envelope("invalid_request_error", StatusText(413)), ok)
    /\ pc' = "done"
    /\ req' = "too_large"
    /\ UNCHANGED <<ctxErr, adapterErr, item, yielded, up, st, nEvents, adapterRet, pulled>>

\* a handler that reports a body that does not decode as its own failure
DecodeFails_AsServerError ==
    /\ UNCHANGED <<tvars, avars, lvars>>
    /\ pc = "serve"
    /\ \E ok \in BOOLEAN :
         writeJSONOpenAIError(Envelope("api_error", StatusText(500)), ok)
    /\ pc' = "done"
    /\ req' = "bad"
    /\ UNCHANGED <<ctxErr, adapterErr, item, yielded, up, st, nEvents, adapterRet, pulled>>

\* ServeHTTP: the body does not decode
DecodeFails ==
    /\ UNCHANGED <<tvars, avars, lvars>>
    /\ pc = "serve"
    /\ \E ok \in BOOLEAN :
         writeJSONOpenAIError(Envelope("invalid_request_error", StatusText(400)), ok)
    /\ pc' = "done"
    /\ req' = "bad"
    /\ UNCHANGED <<ctxErr, adapterErr, item, yielded, up, st, nEvents, adapterRet, pulled>>

\* ServeHTTP: the body decodes; req.Stream picks the path
DecodeOk ==
    /\ UNCHANGED <<tvars, avars, lvars>>
    /\ pc = "serve"
    /\ \E stream \in BOOLEAN :
         /\ req' = IF stream THEN "stream" ELSE "buffered"
         /\ pc' = IF stream THEN "stream_entry" ELSE "buffer_entry"
    /\ UNCHANGED <<ctxErr, status, ctype, log, adapterErr, item, yielded, up, st, nEvents,
                   adapterRet, pulled>>

\* writeResponse / streamResponse: `if ctx.Err() != nil { return }` on entry
EntryCheck ==
    /\ UNCHANGED <<tvars, avars, lvars>>
    /\ pc \in {"stream_entry", "buffer_entry"}
    /\ pc' = IF ctxErr THEN "done"
             ELSE IF pc = "stream_entry" THEN "stream_call" ELSE "buffer_call"
    /\ UNCHANGED <<ctxErr, status, ctype, log, adapterErr, item, yielded, up, st, nEvents,
                   req, adapterRet, pulled>>

\* writeResponse: ProcessRequest returns a response
BufferedOk ==
    /\ UNCHANGED <<tvars, avars, lvars>>
    /\ pc = "buffer_call"
    /\ \E ok \in BOOLEAN : writeJSON([t |-> "response"], StatusOK, ok)
    /\ adapterRet' = "ok"
    /\ pc' = "done"
    /\ UNCHANGED <<ctxErr, adapterErr, item, yielded, up, st, nEvents, req, pulled>>

\* the envelope written for an error of the adapter before any frame
PreStreamEnvelope(e) ==
    IF e.t = "typed" THEN e.env
    ELSE Envelope("api_error", StatusText(StatusInternalServerError))

\* a writeResponse whose error branch does not return: the 200 response follows
\* the envelope
AdapterFails_FallsThrough ==
    /\ UNCHANGED <<tvars, avars, lvars>>
    /\ pc \in {"buffer_call", "stream_call"}
    /\ \E e \in AdapterErrors, ok \in BOOLEAN :
         /\ adapterErr' = e
         /\ ctype' = "application/json"
         /\ status' = IF status = 0 THEN StatusForType(PreStreamEnvelope(e).type) ELSE status
         /\ log' = log \o <<Write("json", PreStreamEnvelope(e),
                                  StatusForType(PreStreamEnvelope(e).type), ok),
                            Write("json", [t |-> "response"], StatusOK, ok)>>
    /\ adapterRet' = "err"
    /\ pc' = "done"
    /\ UNCHANGED <<ctxErr, item, yielded, up, st, nEvents, req, pulled>>

\* writeResponse / streamResponse: the adapter call returns an error
AdapterFails ==
    /\ UNCHANGED <<tvars, avars, lvars>>
    /\ pc \in {"buffer_call", "stream_call"}
    /\ \E e \in AdapterErrors, ok \in BOOLEAN :
         /\ adapterErr' = e
         /\ writeJSONOpenAIError(PreStreamEnvelope(e), ok)
    /\ adapterRet' = "err"
    /\ pc' = "done"
    /\ UNCHANGED <<ctxErr, item, yielded, up, st, nEvents, req, pulled>>

\* streamResponse: ProcessStreamingRequest returns the iterator
StreamOpens ==
    /\ UNCHANGED <<tvars, avars, lvars>>
    /\ pc = "stream_call"
    /\ adapterRet' = "ok"
    /\ pc' = "sse_new"
    /\ UNCHANGED <<ctxErr, status, ctype, log, adapterErr, item, yielded, up, st, nEvents,
                   req, pulled>>

\* streamResponse: NewSSEWriter succeeds
SSEReady ==
    /\ UNCHANGED <<tvars, avars, lvars>>
    /\ pc = "sse_new"
    /\ NewSSEHeaders
    /\ pulled' = Append(pulled, ctxErr)
    /\ pc' = "pull"
    /\ UNCHANGED <<ctxErr, status, log, adapterErr, item, yielded, up, st, nEvents, req,
                   adapterRet>>

\* streamResponse: NewSSEWriter fails (the ResponseWriter cannot flush)
SSEUnsupported ==
    /\ UNCHANGED <<tvars, avars, lvars>>
    /\ pc = "sse_new"
    /\ \E ok \in BOOLEAN :
         writeJSONOpenAIError(Envelope("api_error", StatusText(StatusInternalServerError)), ok)
    /\ pc' = "done"
    /\ UNCHANGED <<ctxErr, adapterErr, item, yielded, up, st, nEvents, req, adapterRet, pulled>>

\* the iterator consumes one upstream event and folds it
IterEvent ==
    /\ UNCHANGED <<tvars, avars, lvars>>
    /\ pc = "pull"
    /\ nEvents < MaxEvents
    /\ \E ev \in NextEvents(up) :
         /\ up' = UpAfter(up, ev)
         /\ st' = FoldState(st, ev)
         /\ nEvents' = nEvents + 1
         /\ IF ev.type = "error"
              THEN /\ item' = ErrItem(StreamError(ev))
                   /\ yielded' = Append(yielded, item')
                   /\ pc' = "check"
              ELSE IF FoldEmit(st, ev) # <<>>
                THEN /\ item' = ChunkItem(FoldEmit(st, ev)[1], ev.index)
                     /\ yielded' = Append(yielded, item')
                     /\ pc' = "check"
                ELSE /\ UNCHANGED <<item, yielded>>
                     /\ pc' = "pull"
    /\ UNCHANGED <<ctxErr, status, ctype, log, adapterErr, req, adapterRet, pulled>>

\* the iterator yields an error that is not an *ErrorResponse
IterFails ==
    /\ UNCHANGED <<tvars, avars, lvars>>
    /\ pc = "pull"
    /\ up.phase \notin {"stopped", "failed"}
    /\ item' = ErrItem(UntypedErr("boom"))
    /\ yielded' = Append(yielded, item')
    /\ up' = [up EXCEPT !.phase = "failed"]
    /\ pc' = "check"
    /\ UNCHANGED <<ctxErr, status, ctype, log, adapterErr, st, nEvents, req, adapterRet, pulled>>

\* the upstream stream ends: the iterator returns and the range loop exits
IterEnds ==
    /\ UNCHANGED <<tvars, avars, lvars>>
    /\ pc = "pull"
    /\ item' = NoItem
    /\ up' = [up EXCEPT !.eof = TRUE]
    /\ pc' = "finish"
    /\ UNCHANGED <<ctxErr, status, ctype, log, adapterErr, yielded, st, nEvents, req,
                   adapterRet, pulled>>

\* loop body: `if ctx.Err() != nil { return }`, then the branch on err
CheckCtx ==
    /\ UNCHANGED <<tvars, avars, lvars>>
    /\ pc = "check"
    /\ pc' = IF ctxErr THEN "done"
             ELSE IF item.t = "error" THEN "write_event" ELSE "write_chunk"
    /\ UNCHANGED <<ctxErr, status, ctype, log, adapterErr, item, yielded, up, st, nEvents,
                   req, adapterRet, pulled>>

\* a fallback that reports an unexpected error of the iterator as server_error
StreamEnvelope_ServerError(e) ==
    IF e.t = "typed" THEN e.env ELSE Envelope("server_error", e.msg)

\* the envelope of the SSE error event for a yielded error
StreamEnvelope(e) ==
    IF e.t = "typed" THEN e.env ELSE Envelope("api_error", e.msg)

\* loop body: sse.WriteEvent("error")
WriteErrorEvent ==
    /\ UNCHANGED <<tvars, avars, lvars>>
    /\ pc = "write_event"
    /\ \E ok \in BOOLEAN :
         /\ WriteEvent("error", ok)
         /\ pc' = IF ok THEN "write_error_data" ELSE "done"
    /\ UNCHANGED <<ctxErr, ctype, adapterErr, item, yielded, up, st, nEvents, req, adapterRet,
                   pulled>>

\* a handler that misses the return after the error event and goes on with the loop
WriteErrorData_NoReturn ==
    /\ UNCHANGED <<tvars, avars, lvars>>
    /\ pc = "write_error_data"
    /\ \E ok \in BOOLEAN : sseWrite("data", StreamEnvelope(item.err), ok)
    /\ pc' = "pull"
    /\ UNCHANGED <<ctxErr, ctype, adapterErr, item, yielded, up, st, nEvents, req, adapterRet,
                   pulled>>

\* loop body: sse.WriteData(errorResponse), then return
WriteErrorData ==
    /\ UNCHANGED <<tvars, avars, lvars>>
    /\ pc = "write_error_data"
    /\ \E ok \in BOOLEAN : WriteData(StreamEnvelope(item.err), ok)
    /\ pc' = "done"
    /\ UNCHANGED <<ctxErr, ctype, adapterErr, item, yielded, up, st, nEvents, req, adapterRet,
                   pulled>>

\* a loop that logs a failed chunk write and goes on with the next item
WriteChunk_IgnoresFailure ==
    /\ UNCHANGED <<tvars, avars, lvars>>
    /\ pc = "write_chunk"
    /\ \E ok \in BOOLEAN :
         /\ WriteData(item.chunk, ok)
         /\ pc' = "pull"
         /\ pulled' = Append(pulled, ctxErr)
    /\ UNCHANGED <<ctxErr, ctype, adapterErr, item, yielded, up, st, nEvents, req, adapterRet>>

\* loop body: sse.WriteData(chunk)
WriteChunk ==
    /\ UNCHANGED <<tvars, avars, lvars>>
    /\ pc = "write_chunk"
    /\ \E ok \in BOOLEAN :
         /\ WriteData(item.chunk, ok)
         /\ pc' = IF ok THEN "pull" ELSE "done"
         /\ pulled' = IF ok THEN Append(pulled, ctxErr) ELSE pulled
    /\ UNCHANGED <<ctxErr, ctype, adapterErr, item, yielded, up, st, nEvents, req, adapterRet>>

\* a handler that returns after the loop without the termination marker
WriteDone_NoMarker ==
    /\ UNCHANGED <<tvars, avars, lvars>>
    /\ pc = "finish"
    /\ pc' = "done"
    /\ UNCHANGED <<ctxErr, status, ctype, log, adapterErr, item, yielded, up, st, nEvents,
                   req, adapterRet, pulled>>

\* after the loop: sse.WriteRaw("[DONE]")
WriteDone ==
    /\ UNCHANGED <<tvars, avars, lvars>>
    /\ pc = "finish"
    /\ \E ok \in BOOLEAN : WriteRaw("[DONE]", ok)
    /\ pc' = "done"
    /\ UNCHANGED <<ctxErr, ctype, adapterErr, item, yielded, up, st, nEvents, req, adapterRet,
                   pulled>>

\* Recovery: the handler panics (in the adapter call or in the chunk iterator) and
\* the middleware answers with http.Error(w, "Internal Server Error", 500):
\* Content-Type text/plain, WriteHeader(500), the text
Recovery ==
    /\ UNCHANGED <<tvars, avars, lvars>>
    /\ pc \in {"buffer_call", "stream_call", "pull"}
    /\ \E ok \in BOOLEAN :
         log' = Append(log, Write("text", [t |-> "text", text |-> StatusText(500)],
                                  StatusInternalServerError, ok))
    /\ ctype' = IF status = 0 THEN "text/plain; charset=utf-8" ELSE ctype
    /\ status' = IF status = 0 THEN StatusInternalServerError ELSE status
    /\ adapterRet' = IF adapterRet = "none" THEN "panic" ELSE adapterRet
    /\ pc' = "done"
    /\ UNCHANGED <<ctxErr, adapterErr, item, yielded, up, st, nEvents, req, pulled>>

Next ==
    \/ Cancel
    \/ DecodeTooLarge
    \/ DecodeFails
    \/ DecodeOk
    \/ EntryCheck
    \/ BufferedOk
    \/ AdapterFails
    \/ StreamOpens
    \/ SSEReady
    \/ SSEUnsupported
    \/ IterEvent
    \/ IterFails
    \/ IterEnds
    \/ CheckCtx
    \/ WriteErrorEvent
    \/ WriteErrorData
    \/ WriteChunk
    \/ WriteDone
    \/ Recovery

Spec == Init /\ [][Next]_vars

-----------------------------------------------------------------------------
(* Request translation: results                                            *)

\* (value, nil)
Ok(v) == [ok |-> TRUE, val |-> v, err |-> ""]
\* (zero value, error)
Err(msg) == [ok |-> FALSE, val |-> <<>>, err |-> msg]

-----------------------------------------------------------------------------
(* Content parts (content parts file of package anthropicclaude)           *)

\* no file / no image in a part
NoFile == [fileId |-> "", fileData |-> "", filename |-> ""]
NoImage == [scheme |-> "", mime |-> "", commas |-> 0, base64 |-> FALSE]

\* a content part of a message: its discriminator `type` and the variant's fields
Part(type, text, image, file) == [type |-> type, text |-> text, image |-> image, file |-> file]
TextPart(text) == Part("text", text, NoImage, NoFile)
RefusalPart(text) == Part("refusal", text, NoImage, NoFile)
AudioPart == Part("input_audio", "", NoImage, NoFile)
ImagePart(image) == Part("image_url", "", image, NoFile)
FilePart(file) == Part("file", "", NoImage, file)

(* An image URL by what the code reads of it: its scheme ("data", "http",  *)
(* "https" or another), for a data: URI the media type before ';' ("" when *)
(* none), the number of commas in the URL and whether the text after the   *)
(* comma is valid base64.                                                  *)
ImageURLs ==
    {[scheme |-> "data", mime |-> "image/png", commas |-> 1, base64 |-> TRUE],
     [scheme |-> "data", mime |-> "", commas |-> 1, base64 |-> TRUE],
     [scheme |-> "data", mime |-> "image/png", commas |-> 1, base64 |-> FALSE],
     [scheme |-> "data", mime |-> "image/png", commas |-> 0, base64 |-> FALSE],
     [scheme |-> "data", mime |-> "image/png", commas |-> 2, base64 |-> TRUE],
     [scheme |-> "https", mime |-> "", commas |-> 0, base64 |-> FALSE],
     [scheme |-> "http", mime |-> "", commas |-> 1, base64 |-> FALSE],
     [scheme |-> "ftp", mime |-> "", commas |-> 0, base64 |-> FALSE]}

(* A file by what the code reads of it: file_id, file_data (named by what  *)
(* it decodes to: "pdf", "text", "bin"; "badb64" does not decode; "" is    *)
(* absent or empty) and filename.                                          *)
Files ==
    {[fileId |-> "file-1", fileData |-> "", filename |-> ""],
     [fileId |-> "file-1", fileData |-> "pdf", filename |-> "a.pdf"],
     [fileId |-> "", fileData |-> "", filename |-> "a.pdf"],
     [fileId |-> "", fileData |-> "badb64", filename |-> ""],
     [fileId |-> "", fileData |-> "pdf", filename |-> ""],
     [fileId |-> "", fileData |-> "text", filename |-> "a.txt"],
     [fileId |-> "", fileData |-> "bin", filename |-> "a.txt"],
     [fileId |-> "", fileData |-> "bin", filename |-> "a.zip"],
     [fileId |-> "", fileData |-> "bin", filename |-> ""]}

\* upstream content blocks
TextBlock(text) == [kind |-> "text", text |-> text, source |-> "", media |-> "", id |-> ""]
ImageBlockBase64(media) ==
    [kind |-> "image", text |-> "", source |-> "base64", media |-> media, id |-> ""]
ImageBlockURL == [kind |-> "image", text |-> "", source |-> "url", media |-> "", id |-> ""]
DocumentBlock(source, title) ==
    [kind |-> "document", text |-> title, source |-> source, media |-> "", id |-> ""]
ToolUseBlock(id) == [kind |-> "tool_use", text |-> "", source |-> "", media |-> "", id |-> id]
ToolResultBlock(id) ==
    [kind |-> "tool_result", text |-> "", source |-> "", media |-> "", id |-> id]

\* a translation that leaves the media type empty when the URI names none
fromChatCompletionRequestMessageContentPartImage_NoDefault(image) ==
    IF image.scheme = "data"
      THEN IF image.commas # 1 THEN Err("invalid data URL format")
           ELSE IF ~image.base64 THEN Err("invalid base64 image data")
           ELSE Ok(ImageBlockBase64(image.mime))
      ELSE IF image.scheme \in {"http", "https"} THEN Ok(ImageBlockURL)
      ELSE Err("invalid image URL format")

\* fromChatCompletionRequestMessageContentPartImage
fromChatCompletionRequestMessageContentPartImage(image) ==
    IF image.scheme = "data"
      THEN IF image.commas # 1 THEN Err("invalid data URL format")
           ELSE IF ~image.base64 THEN Err("invalid base64 image data")
           ELSE Ok(ImageBlockBase64(IF image.mime = "" THEN "image/jpeg" ELSE image.mime))
      ELSE IF image.scheme \in {"http", "https"} THEN Ok(ImageBlockURL)
      ELSE Err("invalid image URL format")

\* http.DetectContentType on the decoded file data
DetectContentType(data) ==
    CASE data = "pdf"  -> "application/pdf"
      [] data = "text" -> "text/plain; charset=utf-8"
      [] OTHER         -> "application/octet-stream"

\* mime.TypeByExtension on the filename's extension
TypeByExtension(filename) ==
    CASE filename = "a.pdf" -> "application/pdf"
      [] filename = "a.txt" -> "text/plain; charset=utf-8"
      [] filename = "a.zip" -> "application/zip"
      [] OTHER              -> ""

\* a detection that asks the declared type before it looks at the content
detectMIMEType_DeclaredFirst(data, declaredType, filename, fallbackType) ==
    IF declaredType # "" /\ declaredType # "application/octet-stream" THEN declaredType
    ELSE IF DetectContentType(data) # "application/octet-stream" THEN DetectContentType(data)
    ELSE IF filename # "" /\ TypeByExtension(filename) # "" THEN TypeByExtension(filename)
    ELSE fallbackType

\* detectMIMEType: content sniffing, declared type, filename extension, fallback
detectMIMEType(data, declaredType, filename, fallbackType) ==
    IF DetectContentType(data) # "application/octet-stream" THEN DetectContentType(data)
    ELSE IF declaredType # "" /\ declaredType # "application/octet-stream" THEN declaredType
    ELSE IF filename # "" /\ TypeByExtension(filename) # "" THEN TypeByExtension(filename)
    ELSE fallbackType

\* strings.HasPrefix(mimeType, "text/") on the types above
IsTextMIME(mimeType) == mimeType = "text/plain; charset=utf-8"

\* fromChatCompletionRequestMessageContentPartFile
fromChatCompletionRequestMessageContentPartFile(file) ==
    IF file.fileId # "" THEN Err("file_id references not supported")
    ELSE IF file.fileData = "" THEN Err("file content requires file_data field")
    ELSE IF file.fileData = "badb64" THEN Err("decode base64 file data")
    ELSE LET mimeType ==
               detectMIMEType(file.fileData, "", file.filename, "application/octet-stream")
         IN IF mimeType = "application/pdf" THEN Ok(DocumentBlock("pdf", file.filename))
            ELSE IF IsTextMIME(mimeType) THEN Ok(DocumentBlock("text", file.filename))
            ELSE Err("unsupported file type")

\* a loop body that lets an audio part through as an empty text block
UserPartBlock_AudioAsEmptyText(part) ==
    CASE part.type = "text"        -> Ok(TextBlock(part.text))
      [] part.type = "image_url"   -> fromChatCompletionRequestMessageContentPartImage(part.image)
      [] part.type = "input_audio" -> Ok(TextBlock(""))
      [] part.type = "file"        -> fromChatCompletionRequestMessageContentPartFile(part.file)
      [] OTHER                     -> Err("content part type not supported in user messages")

\* one iteration of the loop of fromUserMessageContentParts: the block of a part
UserPartBlock(part) ==
    CASE part.type = "text"        -> Ok(TextBlock(part.text))
      [] part.type = "image_url"   -> fromChatCompletionRequestMessageContentPartImage(part.image)
      [] part.type = "input_audio" -> Err("audio content not supported")
      [] part.type = "file"        -> fromChatCompletionRequestMessageContentPartFile(part.file)
      [] OTHER                     -> Err("content part type not supported in user messages")

\* an assistant loop that has no case for refusal parts
AssistantPartBlock_NoRefusal(part) ==
    CASE part.type = "text" -> Ok(TextBlock(part.text))
      [] OTHER              -> Err("content part type not supported in assistant messages")

\* one iteration of the loop of fromAssistantMessageContentParts
AssistantPartBlock(part) ==
    CASE part.type = "text"    -> Ok(TextBlock(part.text))
      [] part.type = "refusal" -> Ok(TextBlock(part.text))
      [] OTHER                 -> Err("content part type not supported in assistant messages")

\* one iteration of the loops of fromToolMessageContentParts,
\* fromSystemMessageContentParts and fromDeveloperMessageContentParts
TextOnlyPartBlock(part) ==
    CASE part.type = "text" -> Ok(TextBlock(part.text))
      [] OTHER              -> Err("content part type not supported")

\* the loop `for i, partUnion := range parts` over what each iteration
\* gives: the blocks of all parts in order, or the error of the first part
\* that fails and no blocks
RECURSIVE PartsLoop(_, _)
PartsLoop(results, blocks) ==
    IF results = <<>> THEN Ok(blocks)
    ELSE IF Head(results).ok
      THEN PartsLoop(Tail(results), Append(blocks, Head(results).val))
      ELSE Err(Head(results).err)

fromUserMessageContentParts(parts) ==
    PartsLoop([i \in DOMAIN parts |-> UserPartBlock(parts[i])], <<>>)
fromAssistantMessageContentParts(parts) ==
    PartsLoop([i \in DOMAIN parts |-> AssistantPartBlock(parts[i])], <<>>)
fromToolMessageContentParts(parts) ==
    PartsLoop([i \in DOMAIN parts |-> TextOnlyPartBlock(parts[i])], <<>>)
fromSystemMessageContentParts(parts) ==
    PartsLoop([i \in DOMAIN parts |-> TextOnlyPartBlock(parts[i])], <<>>)
fromDeveloperMessageContentParts(parts) ==
    PartsLoop([i \in DOMAIN parts |-> TextOnlyPartBlock(parts[i])], <<>>)

(* Message content: a string, or the part list of the message's role.      *)
StringContent(text) == [form |-> "string", text |-> text, parts |-> <<>>]
PartsContent(role, parts) == [form |-> role, text |-> "", parts |-> parts]

\* fromContentParts: the switch on the dynamic type of the content
fromContentParts(content) ==
    CASE content.form = "string" ->
           IF content.text = "" THEN Ok(<<>>) ELSE Ok(<<TextBlock(content.text)>>)
      [] content.form = "user"      -> fromUserMessageContentParts(content.parts)
      [] content.form = "assistant" -> fromAssistantMessageContentParts(content.parts)
      [] content.form = "tool"      -> fromToolMessageContentParts(content.parts)
      [] content.form = "system"    -> fromSystemMessageContentParts(content.parts)
      [] content.form = "developer" -> fromDeveloperMessageContentParts(content.parts)
      [] OTHER                      -> Err("unsupported content format")

-----------------------------------------------------------------------------
(* Tools and tool choice (tools file of package anthropicclaude)           *)

(* A JSON value of a schema map by what the code reads of it: its kind     *)
(* ("string", "array", "object", "bool", "null"), its text when it is not  *)
(* an array, and its elements when it is one (elements have no elements).  *)
JSONValue(kind, text, items) == [kind |-> kind, text |-> text, items |-> items]
JSONString(text) == JSONValue("string", text, <<>>)
JSONNull == JSONValue("null", "", <<>>)
JSONArray(items) == JSONValue("array", "", items)

(* A tool of the request: its discriminator `type` ("" when the item has   *)
(* none), the function's name, its description ("" when absent) and its    *)
(* parameters: the JSON-schema map, a function from its keys to their      *)
(* values (no key when the map is absent or empty).                        *)
Tool(type, name, description, parameters) ==
    [type |-> type, name |-> name, description |-> description, parameters |-> parameters]

SchemaKeys == {"type", "properties", "required", "additionalProperties", "$defs"}

NoSchema == [k \in {} |-> JSONNull]

\* schema maps: complete, without properties and required, with a `required`
\* that has a non-string element, with a `required` that is no array, and
\* with a `type` other than object
Schemas ==
    {NoSchema,
     [k \in {"type", "properties", "required", "additionalProperties"} |->
        CASE k = "type" -> JSONString("object")
          [] k = "properties" -> JSONValue("object", "P", <<>>)
          [] k = "required" -> JSONArray(<<JSONString("a"), JSONString("b")>>)
          [] OTHER -> JSONValue("bool", "false", <<>>)],
     [k \in {"type", "additionalProperties", "$defs"} |->
        CASE k = "type" -> JSONString("object")
          [] k = "$defs" -> JSONValue("object", "D", <<>>)
          [] OTHER -> JSONValue("bool", "false", <<>>)],
     [k \in {"type", "required"} |->
        CASE k = "type" -> JSONString("object")
          [] OTHER -> JSONArray(<<JSONString("a"), JSONValue("number", "1", <<>>)>>)],
     [k \in {"properties", "required"} |->
        CASE k = "properties" -> JSONValue("object", "P", <<>>)
          [] OTHER -> JSONString("a")],
     [k \in {"type", "properties"} |->
        CASE k = "type" -> JSONString("string")
          [] OTHER -> JSONValue("object", "P", <<>>)]}

ToolItems ==
    {Tool("function", "f", "", NoSchema), Tool("custom", "c", "", NoSchema),
     Tool("mcp", "m", "", NoSchema), Tool("", "n", "", NoSchema)}
      \cup {Tool("function", "g", "does g", schema) : schema \in Schemas \ {NoSchema}}

\* the loop `for _, r := range req`: the elements that are strings, in order
RECURSIVE RequiredStrings(_)
RequiredStrings(items) ==
    IF items = <<>> THEN <<>>
    ELSE (IF Head(items).kind = "string" THEN <<Head(items).text>> ELSE <<>>)
           \o RequiredStrings(Tail(items))

\* a tool parameter that keeps no key besides properties and required
ToolParam_NoExtraFields(tool) ==
    [name |-> tool.name,
     description |-> tool.description,
     inputSchema |->
       [type |-> "object",
        properties |-> IF "properties" \in DOMAIN tool.parameters
                         THEN tool.parameters["properties"] ELSE JSONNull,
        required |-> IF "required" \in DOMAIN tool.parameters
                        /\ tool.parameters["required"].kind = "array"
                       THEN RequiredStrings(tool.parameters["required"].items) ELSE <<>>,
        extraFields |-> NoSchema]]

\* anthropic.ToolParam: name, description, and the input schema: its type
\* (the constant "object" of anthropic.ToolInputSchemaParam), Properties,
\* Required and ExtraFields
ToolParam(tool) ==
    [name |-> tool.name,
     description |-> tool.description,
     inputSchema |->
       [type |-> "object",
        properties |-> IF "properties" \in DOMAIN tool.parameters
                         THEN tool.parameters["properties"] ELSE JSONNull,
        required |-> IF "required" \in DOMAIN tool.parameters
                        /\ tool.parameters["required"].kind = "array"
                       THEN RequiredStrings(tool.parameters["required"].items) ELSE <<>>,
        extraFields |-> [k \in DOMAIN tool.parameters \ {"type", "properties", "required"} |->
                           tool.parameters[k]]]]

\* one iteration of the loop of fromChatCompletionTools
ToolItemParam(tool) ==
    CASE tool.type = ""         -> Err("get type of tool")
      [] tool.type = "function" -> Ok(ToolParam(tool))
      [] tool.type = "custom"   -> Err("custom tool not supported by Anthropic Claude")
      [] OTHER                  -> Err("unsupported tool type")

\* fromChatCompletionTools: no tools for an empty list, else the loop
fromChatCompletionTools(tools) ==
    PartsLoop([i \in DOMAIN tools |-> ToolItemParam(tools[i])], <<>>)

(* tool_choice of the request: absent ("nil"), a JSON string, a JSON       *)
(* object of one of the three object variants told apart by its `type`     *)
(* field, or JSON of another shape ("other": no As* method decodes it).    *)
ToolChoice(json, value, type, name) ==
    [json |-> json, value |-> value, type |-> type, name |-> name]
NilToolChoice == ToolChoice("nil", "", "", "")

ToolChoices ==
    {NilToolChoice,
     ToolChoice("string", "none", "", ""),
     ToolChoice("string", "auto", "", ""),
     ToolChoice("string", "required", "", ""),
     ToolChoice("string", "any", "", ""),
     ToolChoice("object", "", "function", "f"),
     ToolChoice("object", "", "function", "g"),
     ToolChoice("object", "", "custom", "c"),
     ToolChoice("object", "", "allowed_tools", ""),
     ToolChoice("object", "", "mystery", "f"),
     ToolChoice("other", "", "", "")}

\* anthropic.ToolChoiceUnionParam: OfAuto, OfNone, OfAny or OfTool{Name}
UpstreamChoice(kind, name) == [kind |-> kind, name |-> name]

\* a mapping that treats "required" as the default
fromToolChoiceOption_RequiredAsAuto(toolChoice) ==
    CASE toolChoice.json = "nil" -> Ok(UpstreamChoice("auto", ""))
      [] toolChoice.json = "string" ->
           CASE toolChoice.value = "none"     -> Ok(UpstreamChoice("none", ""))
             [] toolChoice.value = "auto"     -> Ok(UpstreamChoice("auto", ""))
             [] toolChoice.value = "required" -> Ok(UpstreamChoice("auto", ""))
             [] OTHER                         -> Err("unsupported tool choice string")
      [] toolChoice.json = "object" /\ toolChoice.type = "function" ->
           Ok(UpstreamChoice("tool", toolChoice.name))
      [] toolChoice.json = "object" /\ toolChoice.type = "custom" ->
           Err("custom tools not supported by Anthropic Claude")
      [] toolChoice.json = "object" /\ toolChoice.type = "allowed_tools" ->
           Err("allowed_tools choice not supported by Anthropic Claude")
      [] OTHER -> Ok(UpstreamChoice("auto", ""))

\* fromToolChoiceOption
fromToolChoiceOption(toolChoice) ==
    CASE toolChoice.json = "nil" -> Ok(UpstreamChoice("auto", ""))
      [] toolChoice.json = "string" ->
           CASE toolChoice.value = "none"     -> Ok(UpstreamChoice("none", ""))
             [] toolChoice.value = "auto"     -> Ok(UpstreamChoice("auto", ""))
             [] toolChoice.value = "required" -> Ok(UpstreamChoice("any", ""))
             [] OTHER                         -> Err("unsupported tool choice string")
      [] toolChoice.json = "object" /\ toolChoice.type = "function" ->
           Ok(UpstreamChoice("tool", toolChoice.name))
      [] toolChoice.json = "object" /\ toolChoice.type = "custom" ->
           Err("custom tools not supported by Anthropic Claude")
      [] toolChoice.json = "object" /\ toolChoice.type = "allowed_tools" ->
           Err("allowed_tools choice not supported by Anthropic Claude")
      [] OTHER -> Ok(UpstreamChoice("auto", ""))

-----------------------------------------------------------------------------
(* Tool calls of a buffered response (tools file of package anthropicclaude) *)

(* A content block of the upstream response (anthropic.ContentBlockUnion)  *)
(* by what the code reads of it: its kind, and of a tool_use block its id  *)
(* ("" when the upstream sent none), name and input (the raw JSON, "" when *)
(* it has no byte).                                                        *)
ResponseBlock(kind, id, name, input) == [kind |-> kind, id |-> id, name |-> name, input |-> input]

ResponseBlocks ==
    {ResponseBlock("text", "", "", ""), ResponseBlock("thinking", "", "", ""),
     ResponseBlock("tool_use", "t1", "f", "{a:1}"),
     ResponseBlock("tool_use", "t2", "g", "{}"),
     ResponseBlock("tool_use", "", "g", "")}

\* newToolCallID: "call_" and the first eight characters of a random UUID;
\* the ids it may return
GeneratedIDs == {"call_1a2b3c4d", "call_9f8e7d6c"}

\* types.ChatCompletionMessageToolCall
ToolCall(id, name, arguments) ==
    [id |-> id, type |-> "function", name |-> name, arguments |-> arguments]

\* a tool call that copies the input as it is, empty or not
ToolCallOf_RawInput(block, generated) ==
    ToolCall(IF block.id = "" THEN generated ELSE block.id, block.name, block.input)

\* the case anthropic.ToolUseBlock of the loop: the tool call of a block,
\* `generated` being what newToolCallID returns if it is called
ToolCallOf(block, generated) ==
    ToolCall(IF block.id = "" THEN generated ELSE block.id,
             block.name,
             IF block.input = "" THEN "{}" ELSE block.input)

\* the loop `for _, block := range content`, from block i on
RECURSIVE ToolCallItems(_, _, _)
ToolCallItems(content, generated, i) ==
    IF i > Len(content) THEN <<>>
    ELSE (IF content[i].kind = "tool_use"
            THEN <<ToolCallOf(content[i], generated[i])>> ELSE <<>>)
           \o ToolCallItems(content, generated, i + 1)

\* toChatCompletionMessageToolCalls: nil when there is no tool call, else
\* a pointer to the tool calls
toChatCompletionMessageToolCalls(content, generated) ==
    LET toolCallItems == ToolCallItems(content, generated, 1)
    IN IF toolCallItems = <<>> THEN [present |-> FALSE, toolCalls |-> <<>>]
       ELSE [present |-> TRUE, toolCalls |-> toolCallItems]

-----------------------------------------------------------------------------
(* Usage (usage.go)                                                        *)

(* The fields of anthropic.Usage are int64 and the sum is an int64 sum.    *)
(* The model keeps the two's-complement arithmetic at a width of TokenBits *)
(* bits instead of 64; int has the same width (a 64-bit build).            *)
MinTokens == -(2 ^ (TokenBits - 1))
MaxTokens == 2 ^ (TokenBits - 1) - 1
TokenCounts == MinTokens..MaxTokens

\* the value an integer has at that width
WrapTokens(n) == ((n - MinTokens) % (2 ^ TokenBits)) + MinTokens

\* anthropic.Usage: the fields the code reads
Usage(inputTokens, outputTokens, cacheReadInputTokens) ==
    [inputTokens |-> inputTokens, outputTokens |-> outputTokens,
     cacheReadInputTokens |-> cacheReadInputTokens]

\* types.CompletionUsage; cachedTokens is PromptTokensDetails.CachedTokens
CompletionUsage(promptTokens, completionTokens, totalTokens, hasDetails, cachedTokens) ==
    [promptTokens |-> promptTokens, completionTokens |-> completionTokens,
     totalTokens |-> totalTokens, hasDetails |-> hasDetails, cachedTokens |-> cachedTokens]

\* a conversion that counts the cache reads into the total
toCompletionUsage_TotalWithCache(usage) ==
    CompletionUsage(usage.inputTokens, usage.outputTokens,
                    WrapTokens(usage.inputTokens + usage.outputTokens
                                 + usage.cacheReadInputTokens),
                    usage.cacheReadInputTokens > 0,
                    IF usage.cacheReadInputTokens > 0 THEN usage.cacheReadInputTokens ELSE 0)

\* toCompletionUsage
toCompletionUsage(usage) ==
    CompletionUsage(usage.inputTokens, usage.outputTokens,
                    WrapTokens(usage.inputTokens + usage.outputTokens),
                    usage.cacheReadInputTokens > 0,
                    IF usage.cacheReadInputTokens > 0 THEN usage.cacheReadInputTokens ELSE 0)

-----------------------------------------------------------------------------
(* Reasoning (reasoning.go)                                                *)

(* extra_body.thinking by what the code reads of it: absent (or not a      *)
(* map), else its `type` ("" when it has no string type), whether it has a *)
(* number as budget_tokens, and that number.                               *)
ExtraThinking(present, type, hasBudget, budget) ==
    [present |-> present, type |-> type, hasBudget |-> hasBudget, budget |-> budget]
NoExtraThinking == ExtraThinking(FALSE, "", FALSE, 0)

ReasoningEfforts == {"", "low", "medium", "high", "minimal"}
ExtraThinkings ==
    {NoExtraThinking,
     ExtraThinking(TRUE, "enabled", TRUE, 16000),
     ExtraThinking(TRUE, "enabled", FALSE, 0),
     ExtraThinking(TRUE, "disabled", FALSE, 0),
     ExtraThinking(TRUE, "disabled", TRUE, 16000),
     ExtraThinking(TRUE, "adaptive", FALSE, 0),
     ExtraThinking(TRUE, "", TRUE, 16000)}

\* anthropic.ThinkingConfigParamUnion: unset, enabled with a budget, or disabled
Thinking(type, budget) == [type |-> type, budget |-> budget]
ThinkingUnset == Thinking("unset", 0)

\* a switch that gives "high" the budget 16384
ThinkingOfEffort_SmallHigh(effort) ==
    CASE effort = "low"    -> Thinking("enabled", 1024)
      [] effort = "medium" -> Thinking("enabled", 8192)
      [] effort = "high"   -> Thinking("enabled", 16384)
      [] OTHER             -> Thinking("unset", 0)

\* buildThinking: the switch on reasoning_effort
ThinkingOfEffort(effort) ==
    CASE effort = "low"    -> Thinking("enabled", 1024)
      [] effort = "medium" -> Thinking("enabled", 8192)
      [] effort = "high"   -> Thinking("enabled", 24576)
      [] OTHER             -> ThinkingUnset

\* a buildThinking that enables thinking with the smallest budget when no
\* budget is named anywhere
buildThinking_DefaultBudget(effort, extra) ==
    LET thinking == ThinkingOfEffort(effort) IN
    IF ~extra.present THEN Ok(thinking)
    ELSE CASE extra.type = "enabled" ->
                IF extra.hasBudget THEN Ok(Thinking("enabled", extra.budget))
                ELSE IF thinking.type = "unset" THEN Ok(Thinking("enabled", 1024))
                ELSE Ok(thinking)
           [] extra.type = "disabled" -> Ok(Thinking("disabled", 0))
           [] OTHER -> Ok(thinking)

\* a buildThinking in which a reasoning_effort that set a budget wins
buildThinking_EffortWins(effort, extra) ==
    LET thinking == ThinkingOfEffort(effort) IN
    IF ~extra.present \/ thinking.type # "unset" THEN Ok(thinking)
    ELSE CASE extra.type = "enabled" ->
                IF extra.hasBudget THEN Ok(Thinking("enabled", extra.budget))
                ELSE Err("extra_body.thinking.type is 'enabled' but budget_tokens not specified and no reasoning_effort set")
           [] extra.type = "disabled" -> Ok(Thinking("disabled", 0))
           [] OTHER -> Ok(thinking)

\* buildThinking
buildThinking(effort, extra) ==
    LET thinking == ThinkingOfEffort(effort) IN
    IF ~extra.present THEN Ok(thinking)
    ELSE CASE extra.type = "enabled" ->
                IF extra.hasBudget THEN Ok(Thinking("enabled", extra.budget))
                ELSE IF thinking.type = "unset"
                  THEN Err("extra_body.thinking.type is 'enabled' but budget_tokens not specified and no reasoning_effort set")
                  ELSE Ok(thinking)
           [] extra.type = "disabled" -> Ok(Thinking("disabled", 0))
           [] OTHER -> Ok(thinking)

-----------------------------------------------------------------------------
(* The request translator (spec.md 4.1): messages                          *)

\* a message of the client request; toolCalls: the ids of an assistant's tool calls
Message(role, content, toolCalls, toolCallId) ==
    [role |-> role, content |-> content, toolCalls |-> toolCalls, toolCallId |-> toolCallId]

SystemMessage(text) == Message("system", StringContent(text), <<>>, "")
DeveloperMessage(text) == Message("developer", StringContent(text), <<>>, "")
UserMessage(content) == Message("user", content, <<>>, "")
AssistantMessage(text, toolCalls) == Message("assistant", StringContent(text), toolCalls, "")
ToolMessage(text, toolCallId) == Message("tool", StringContent(text), <<>>, toolCallId)

\* a message of the upstream request: role user or assistant, and its blocks
UpstreamMessage(role, blocks) == [role |-> role, blocks |-> blocks]

IsHoisted(m) == m.role \in {"system", "developer"}

\* a hoisting that joins the texts with a blank instead of a newline
HoistSystem_JoinWithBlank(system, m) ==
    IF system = "" THEN m.content.text ELSE system \o " " \o m.content.text

\* system hoisting, one message: its text is appended to the accumulator after a "\n"
HoistSystem(system, m) ==
    IF system = "" THEN m.content.text ELSE system \o "\n" \o m.content.text

\* system hoisting: the walk over the messages in order
RECURSIVE SystemOf(_, _)
SystemOf(messages, system) ==
    IF messages = <<>> THEN system
    ELSE SystemOf(Tail(messages),
                  IF IsHoisted(Head(messages)) THEN HoistSystem(system, Head(messages))
                  ELSE system)

\* the upstream message made of tool results only
IsToolResultMessage(um) ==
    um.role = "user" /\ um.blocks # <<>> /\ um.blocks[1].kind = "tool_result"

RECURSIVE ToolUseBlocks(_)
ToolUseBlocks(toolCalls) ==
    IF toolCalls = <<>> THEN <<>>
    ELSE <<ToolUseBlock(Head(toolCalls))>> \o ToolUseBlocks(Tail(toolCalls))

\* a merge that opens a new upstream message for every tool message
MergeToolResult_NoMerge(out, m) ==
    Append(out, UpstreamMessage("user", <<ToolResultBlock(m.toolCallId)>>))

\* tool-role merge: a tool message that follows a tool message adds its
\* tool_result block to the user message the first one opened
MergeToolResult(out, m) ==
    IF out # <<>> /\ IsToolResultMessage(out[Len(out)])
      THEN [out EXCEPT ![Len(out)].blocks = Append(@, ToolResultBlock(m.toolCallId))]
      ELSE Append(out, UpstreamMessage("user", <<ToolResultBlock(m.toolCallId)>>))

\* the walk over the messages that remain after hoisting
RECURSIVE WalkMessages(_, _)
WalkMessages(messages, out) ==
    IF messages = <<>> THEN Ok(out)
    ELSE LET m == Head(messages)
             blocks == fromContentParts(m.content)
         IN CASE IsHoisted(m) -> WalkMessages(Tail(messages), out)
              [] m.role = "tool" -> WalkMessages(Tail(messages), MergeToolResult(out, m))
              [] m.role = "user" ->
                   IF blocks.ok
                     THEN WalkMessages(Tail(messages),
                                       Append(out, UpstreamMessage("user", blocks.val)))
                     ELSE Err(blocks.err)
              [] m.role = "assistant" ->
                   IF blocks.ok
                     THEN WalkMessages(Tail(messages),
                            Append(out, UpstreamMessage("assistant",
                                          blocks.val \o ToolUseBlocks(m.toolCalls))))
                     ELSE Err(blocks.err)
              [] OTHER -> Err("unsupported message role")

\* a client request
Request(messages, tools, toolChoice, effort, extra) ==
    [messages |-> messages, tools |-> tools, toolChoice |-> toolChoice,
     effort |-> effort, extra |-> extra]

\* translate(client_req): the upstream request, or the first failure
translate(r) ==
    LET msgs == WalkMessages(r.messages, <<>>)
        tools == fromChatCompletionTools(r.tools)
        choice == IF r.tools = <<>> /\ r.toolChoice = NilToolChoice
                    THEN Ok(UpstreamChoice("unset", ""))
                    ELSE fromToolChoiceOption(r.toolChoice)
        thinking == buildThinking(r.effort, r.extra)
    IN IF ~msgs.ok THEN Err(msgs.err)
       ELSE IF ~tools.ok THEN Err(tools.err)
       ELSE IF ~choice.ok THEN Err(choice.err)
       ELSE IF ~thinking.ok THEN Err(thinking.err)
       ELSE Ok([system |-> SystemOf(r.messages, ""), messages |-> msgs.val,
                tools |-> tools.val, toolChoice |-> choice.val, thinking |-> thinking.val])

-----------------------------------------------------------------------------
(* tokensource: Authorizer.Exchange                                        *)

(* Strings the function cuts and compares are sequences of characters: "c" *)
(* and "v" stand for any character that is not the separator '#'.          *)
MaxCodeLen == 3
MaxVerifierLen == 2
CodeChars == {"c", "v", "#"}

\* strings.Cut(s, "#"): the text before and after the first '#', and whether
\* there is one
Cut(s) ==
    LET seps == {i \in DOMAIN s : s[i] = "#"}
    IN  IF seps = {} THEN [before |-> s, after |-> <<>>, found |-> FALSE]
        ELSE LET i == CHOOSE k \in seps : \A j \in seps : k <= j
             IN  [before |-> SubSeq(s, 1, i - 1), after |-> SubSeq(s, i + 1, Len(s)),
                  found |-> TRUE]

(* What a.client.Do and the decoding of the body come to: the request      *)
(* fails in transport (Do returns an error), or the endpoint answers with  *)
(* a status and a body that decodes into a token or does not.              *)
EndpointAnswer(transportOk, statusCode, decodes) ==
    [transportOk |-> transportOk, statusCode |-> statusCode, decodes |-> decodes]
EndpointAnswers ==
    {EndpointAnswer(FALSE, 0, FALSE)}
      \cup {EndpointAnswer(TRUE, s, d) : s \in {200, 201, 400, 500}, d \in BOOLEAN}

NoRequest == [code |-> <<>>, state |-> <<>>, code_verifier |-> <<>>, sent |-> FALSE]
\* exchangeRequest as posted to the token endpoint
exchangeRequest(code, state, verifier) ==
    [code |-> code, state |-> state, code_verifier |-> verifier, sent |-> TRUE]

\* the two results of Exchange, with the request it handed to client.Do
ExchangeErr(msg, request) == [ok |-> FALSE, err |-> msg, token |-> FALSE, request |-> request]
ExchangeToken(request) == [ok |-> TRUE, err |-> "", token |-> TRUE, request |-> request]

\* an Exchange that posts the code without comparing the state with the verifier
Exchange_NoStateCheck(ctxDone, codeWithState, verifier, answer) ==
    LET cut == Cut(codeWithState)
        request == exchangeRequest(cut.before, cut.after, verifier)
    IN  IF ctxDone THEN ExchangeErr("context canceled", NoRequest)
        ELSE IF verifier = <<>> THEN ExchangeErr("verifier cannot be empty", NoRequest)
        ELSE IF ~cut.found
          THEN ExchangeErr("invalid code format: missing '#' separator", NoRequest)
        ELSE IF ~answer.transportOk THEN ExchangeErr("exchange request failed", request)
        ELSE IF answer.statusCode # StatusOK
          THEN ExchangeErr("exchange failed with status", request)
        ELSE IF ~answer.decodes THEN ExchangeErr("decoding exchange response", request)
        ELSE ExchangeToken(request)

\* Authorizer.Exchange
Exchange(ctxDone, codeWithState, verifier, answer) ==
    LET cut == Cut(codeWithState)
        request == exchangeRequest(cut.before, cut.after, verifier)
    IN  IF ctxDone THEN ExchangeErr("context canceled", NoRequest)
        ELSE IF verifier = <<>> THEN ExchangeErr("verifier cannot be empty", NoRequest)
        ELSE IF ~cut.found
          THEN ExchangeErr("invalid code format: missing '#' separator", NoRequest)
        ELSE IF cut.after # verifier THEN ExchangeErr("state mismatch", NoRequest)
        ELSE IF ~answer.transportOk THEN ExchangeErr("exchange request failed", request)
        ELSE IF answer.statusCode # StatusOK
          THEN ExchangeErr("exchange failed with status", request)
        ELSE IF ~answer.decodes THEN ExchangeErr("decoding exchange response", request)
        ELSE ExchangeToken(request)

-----------------------------------------------------------------------------
(* The adapter's functions, each applied to one argument                   *)

\* the handler is not serving a request while a function is applied
HandlerIdle ==
    /\ pc = "serve"
    /\ ctxErr = FALSE
    /\ status = 0
    /\ ctype = ""
    /\ log = <<>>
    /\ adapterErr = NoErr
    /\ item = NoItem
    /\ yielded = <<>>
    /\ up = UpInit
    /\ st = FoldInit
    /\ nEvents = 0
    /\ req = "none"
    /\ adapterRet = "none"
    /\ pulled = <<>>

InitT ==
    /\ HandlerIdle
    /\ tin = Idle
    /\ tout = Idle
    /\ AppIdle
    /\ LoginIdle

Apply(op, arg, result) ==
    /\ tin' = [op |-> op, arg |-> arg]
    /\ tout' = [op |-> op] @@ result
    /\ UNCHANGED <<hvars, avars, lvars>>

\* toChatCompletionError, in either revision of errors.go
NormalizeError ==
    /\ tin = Idle
    /\ \E e \in SDKErrors, rev \in Revisions :
             Apply("toChatCompletionError", [rev |-> rev, err |-> e],
                   IF rev = "part_006" THEN toChatCompletionError(e)
                   ELSE toChatCompletionError_errors_go(e))

\* sequences over S of length at most n
SeqsUpTo(S, n) == UNION {[1..k -> S] : k \in 0..n}

\* content parts, contents, messages, tools and requests the functions are applied to
ContentParts ==
    {TextPart("p"), RefusalPart("no"), AudioPart, Part("video", "", NoImage, NoFile)}
      \cup {ImagePart(u) : u \in ImageURLs}
      \cup {FilePart(f) : f \in Files}

Contents ==
    {StringContent(""), StringContent("q"), [form |-> "number", text |-> "", parts |-> <<>>]}
      \cup {PartsContent(role, parts) :
              role \in {"user", "assistant", "tool", "system", "developer"},
              parts \in SeqsUpTo(ContentParts, MaxParts)}

ClientMessages ==
    {SystemMessage("A"), SystemMessage("C"), DeveloperMessage("B"),
     UserMessage(StringContent("q")),
     UserMessage(PartsContent("user", <<TextPart("p"), AudioPart>>)),
     AssistantMessage("a", <<>>),
     AssistantMessage("", <<"t1">>),
     AssistantMessage("a", <<"t1", "t2">>),
     ToolMessage("r1", "t1"),
     ToolMessage("r2", "t2")}

Requests ==
    {Request(ms, <<>>, NilToolChoice, "", NoExtraThinking) :
        ms \in SeqsUpTo(ClientMessages, MaxMessages)}
      \cup {Request(<<UserMessage(StringContent("q"))>>, ts, c, "", NoExtraThinking) :
              ts \in SeqsUpTo(ToolItems, MaxTools), c \in ToolChoices}
      \cup {Request(<<UserMessage(PartsContent("user", <<p>>))>>, <<>>, NilToolChoice, "",
                    NoExtraThinking) : p \in ContentParts}
      \cup {Request(<<UserMessage(StringContent("q"))>>, <<>>, NilToolChoice, e, x) :
              e \in ReasoningEfforts, x \in ExtraThinkings}

\* the stop reasons the two mappings are applied to: the known ones, the
\* empty one and one the switch does not name
UpstreamStopReasons == StopReasons \cup {"model_context_window_exceeded"}

FinishReason ==
    /\ tin = Idle
    /\ \E stopReason \in UpstreamStopReasons :
          Apply("toFinishReason", [stopReason |-> stopReason],
                [buffered |-> toFinishReason(stopReason),
                 streaming |-> toFinishReasonStreaming(stopReason)])

\* the content of a response, and for each of its blocks the id
\* newToolCallID returns if the block needs one
ToChatCompletionMessageToolCalls ==
    /\ tin = Idle
    /\ \E content \in SeqsUpTo(ResponseBlocks, MaxBlocks) :
          \E generated \in [DOMAIN content -> GeneratedIDs] :
             Apply("toChatCompletionMessageToolCalls",
                   [content |-> content, generated |-> generated],
                   toChatCompletionMessageToolCalls(content, generated))

\* cache_read_input_tokens around the test `> 0`
CacheReads == {-1, 0, 1, MaxTokens}

ToCompletionUsage ==
    /\ tin = Idle
    /\ \E inputTokens \in TokenCounts, outputTokens \in TokenCounts, cacheRead \in CacheReads :
          Apply("toCompletionUsage", Usage(inputTokens, outputTokens, cacheRead),
                toCompletionUsage(Usage(inputTokens, outputTokens, cacheRead)))

\* decoded file data, declared types and filenames detectMIMEType is applied to
FileDatas == {"pdf", "text", "bin"}
DeclaredTypes == {"", "application/octet-stream", "text/csv", "application/pdf"}
Filenames == {"", "a.pdf", "a.txt", "a.zip", "a.dat"}

DetectMIMEType ==
    /\ tin = Idle
    /\ \E data \in FileDatas, declaredType \in DeclaredTypes, filename \in Filenames :
          Apply("detectMIMEType",
                [data |-> data, declaredType |-> declaredType, filename |-> filename,
                 fallbackType |-> "application/octet-stream"],
                [mimeType |-> detectMIMEType(data, declaredType, filename,
                                             "application/octet-stream")])

FromContentParts ==
    /\ tin = Idle
    /\ \E content \in Contents : Apply("fromContentParts", content, fromContentParts(content))


FromChatCompletionTools ==
    /\ tin = Idle
    /\ \E tools \in SeqsUpTo(ToolItems, MaxTools) :
             Apply("fromChatCompletionTools", tools, fromChatCompletionTools(tools))

FromToolChoiceOption ==
    /\ tin = Idle
    /\ \E toolChoice \in ToolChoices :
             Apply("fromToolChoiceOption", toolChoice, fromToolChoiceOption(toolChoice))

BuildThinking ==
    /\ tin = Idle
    /\ \E effort \in ReasoningEfforts, extra \in ExtraThinkings :
             Apply("buildThinking", [effort |-> effort, extra |-> extra],
                   buildThinking(effort, extra))

Translate ==
    /\ tin = Idle
    /\ \E r \in Requests : Apply("translate", r, translate(r))


(* ProcessRequest / ProcessStreamingRequest when the translation fails:    *)
(* the failure goes through the error normalizer and is returned; the      *)
(* handler answers it (writeResponse, streamResponse before any frame).    *)
ProcessRequestReply(e) ==
    [err |-> e,
     body |-> PreStreamEnvelope(e),
     status |-> StatusForType(PreStreamEnvelope(e).type)]

TranslateFails ==
    /\ tin = Idle
    /\ \E r \in Requests, stream \in BOOLEAN :
             /\ ~translate(r).ok
             /\ Apply("ProcessRequest", [request |-> r, stream |-> stream],
                      ProcessRequestReply(TypedErr(toChatCompletionError(PlainError(translate(r).err)))))

\* Authorizer.Exchange, for a context that is or is not already cancelled, a pasted
\* code, a verifier and an answer of the token endpoint
ExchangeCode ==
    /\ tin = Idle
    /\ \E ctxDone \in BOOLEAN, codeWithState \in SeqsUpTo(CodeChars, MaxCodeLen),
          verifier \in SeqsUpTo(CodeChars \ {"c"}, MaxVerifierLen),
          answer \in EndpointAnswers :
             Apply("Exchange",
                   [ctxDone |-> ctxDone, codeWithState |-> codeWithState,
                    verifier |-> verifier, answer |-> answer],
                   Exchange(ctxDone, codeWithState, verifier, answer))

NextT ==
    \/ NormalizeError
    \/ FromContentParts
    \/ FromChatCompletionTools
    \/ FromToolChoiceOption
    \/ BuildThinking
    \/ Translate
    \/ TranslateFails
    \/ DetectMIMEType
    \/ FinishReason
    \/ ToChatCompletionMessageToolCalls
    \/ ToCompletionUsage
    \/ ExchangeCode

SpecT == InitT /\ [][NextT]_vars

-----------------------------------------------------------------------------
(* internal/app: App.Start                                                 *)
(*                                                                         *)
(* Start runs on the caller's goroutine; the errgroup's monitor goroutine  *)
(* selects on the proxy's error channel and on the group context; the      *)
(* caller's context is cancelled, and the proxy reports on its channel,    *)
(* from other goroutines at any moment.                                    *)

\* errors proxy.Start, the proxy's error channel and proxy.Shutdown may give
StartupErrors == {"listen tcp: address already in use"}
RuntimeErrors == {"serve: accept failed", "serve: listener closed"}
ShutdownErrors == {"context deadline exceeded", "close failed"}

\* Start is called, with a context that may be cancelled already
InitApp ==
    /\ HandlerIdle
    /\ tin = Idle
    /\ tout = Idle
    /\ LoginIdle
    /\ appPc = "start"
    /\ appCtxDone \in BOOLEAN
    /\ gCtxDone = appCtxDone
    /\ proxyErrCh = "none"
    /\ monitor = "none"
    /\ shutdownCtx = "none"
    /\ shutdownCalls = <<>>
    /\ errs = <<>>
    /\ startRet = StartRet("none", <<>>)

\* the caller's context is cancelled; the group context derives from it
CancelContext ==
    /\ appPc \notin {"none", "returned"}
    /\ ~appCtxDone
    /\ appCtxDone' = TRUE
    /\ gCtxDone' = TRUE
    /\ UNCHANGED <<appPc, proxyErrCh, monitor, shutdownCtx, shutdownCalls, errs, startRet>>
    /\ UNCHANGED <<hvars, tvars, lvars>>

\* a.proxy.Start fails: Start returns the wrapped error
ProxyStartFails ==
    /\ appPc = "start"
    /\ \E e \in StartupErrors : startRet' = StartRet("startup", <<AppError("proxy startup failed", e)>>)
    /\ appPc' = "returned"
    /\ UNCHANGED <<appCtxDone, gCtxDone, proxyErrCh, monitor, shutdownCtx, shutdownCalls, errs>>
    /\ UNCHANGED <<hvars, tvars, lvars>>

\* a.proxy.Start succeeds: Shutdown is registered, the monitor goroutine is started
\* and Start blocks in g.Wait()
ProxyStarts ==
    /\ appPc = "start"
    /\ proxyErrCh' = "empty"
    /\ monitor' = "select"
    /\ appPc' = "wait"
    /\ UNCHANGED <<appCtxDone, gCtxDone, shutdownCtx, shutdownCalls, errs, startRet>>
    /\ UNCHANGED <<hvars, tvars, lvars>>

\* the proxy puts a runtime error on its channel, or a nil value (or closes it)
ProxyReports ==
    /\ proxyErrCh = "empty"
    /\ appPc # "returned"
    /\ \E v \in RuntimeErrors \cup {"nil"} : proxyErrCh' = v
    /\ UNCHANGED <<appPc, appCtxDone, gCtxDone, monitor, shutdownCtx, shutdownCalls, errs,
                   startRet>>
    /\ UNCHANGED <<hvars, tvars, lvars>>

\* monitor: `case err := <-proxyErrCh`; on the first non-nil error the errgroup
\* cancels the group context
MonitorReceives ==
    /\ monitor = "select"
    /\ proxyErrCh \in RuntimeErrors \cup {"nil"}
    /\ monitor' = proxyErrCh
    /\ proxyErrCh' = "drained"
    /\ gCtxDone' = (gCtxDone \/ proxyErrCh # "nil")
    /\ UNCHANGED <<appPc, appCtxDone, shutdownCtx, shutdownCalls, errs, startRet>>
    /\ UNCHANGED <<hvars, tvars, lvars>>

\* monitor: `case <-gCtx.Done(): return nil`
MonitorDone ==
    /\ monitor = "select"
    /\ gCtxDone
    /\ monitor' = "nil"
    /\ UNCHANGED <<appPc, appCtxDone, gCtxDone, proxyErrCh, shutdownCtx, shutdownCalls, errs,
                   startRet>>
    /\ UNCHANGED <<hvars, tvars, lvars>>

\* a Start that hands the group context, cancelled by now, to the shutdown functions
WaitReturns_GroupContext ==
    /\ appPc = "wait"
    /\ monitor \notin {"none", "select"}
    /\ gCtxDone' = TRUE
    /\ shutdownCtx' = "done"
    /\ errs' = IF monitor # "nil" THEN <<AppError("runtime", monitor)>> ELSE <<>>
    /\ appPc' = "shutdown"
    /\ UNCHANGED <<appCtxDone, proxyErrCh, monitor, shutdownCalls, startRet>>
    /\ UNCHANGED <<hvars, tvars, lvars>>

\* g.Wait() returns the monitor's result (and cancels the group context); Start
\* makes the shutdown context from context.Background() and starts the list of errors
WaitReturns ==
    /\ appPc = "wait"
    /\ monitor \notin {"none", "select"}
    /\ gCtxDone' = TRUE
    /\ shutdownCtx' = "live"
    /\ errs' = IF monitor # "nil" THEN <<AppError("runtime", monitor)>> ELSE <<>>
    /\ appPc' = "shutdown"
    /\ UNCHANGED <<appCtxDone, proxyErrCh, monitor, shutdownCalls, startRet>>
    /\ UNCHANGED <<hvars, tvars, lvars>>

\* the loop over shutdownFuncs calls a.proxy.Shutdown(shutdownCtx)
CallShutdown ==
    /\ appPc = "shutdown"
    /\ shutdownCalls' = Append(shutdownCalls, [ctx |-> shutdownCtx, err |-> "pending"])
    /\ appPc' = "in_shutdown"
    /\ UNCHANGED <<appCtxDone, gCtxDone, proxyErrCh, monitor, shutdownCtx, errs, startRet>>
    /\ UNCHANGED <<hvars, tvars, lvars>>

\* the five seconds of the shutdown context pass while Shutdown runs
ShutdownTimeout ==
    /\ appPc = "in_shutdown"
    /\ shutdownCtx = "live"
    /\ shutdownCtx' = "done"
    /\ UNCHANGED <<appPc, appCtxDone, gCtxDone, proxyErrCh, monitor, shutdownCalls, errs,
                   startRet>>
    /\ UNCHANGED <<hvars, tvars, lvars>>

\* Shutdown returns, with an error or without; the loop ends and Start returns
\* errors.Join(errs...) or nil
ShutdownReturns ==
    /\ appPc = "in_shutdown"
    /\ \E e \in ShutdownErrors \cup {"nil"} :
         /\ shutdownCalls' = [shutdownCalls EXCEPT ![Len(shutdownCalls)].err = e]
         /\ errs' = IF e # "nil" THEN Append(errs, AppError("shutdown", e)) ELSE errs
    /\ startRet' = IF Len(errs') > 0 THEN StartRet("join", errs') ELSE StartRet("nil", <<>>)
    /\ appPc' = "returned"
    /\ UNCHANGED <<appCtxDone, gCtxDone, proxyErrCh, monitor, shutdownCtx>>
    /\ UNCHANGED <<hvars, tvars, lvars>>

NextApp ==
    \/ CancelContext
    \/ ProxyStartFails
    \/ ProxyStarts
    \/ ProxyReports
    \/ MonitorReceives
    \/ MonitorDone
    \/ WaitReturns
    \/ CallShutdown
    \/ ShutdownTimeout
    \/ ShutdownReturns

SpecApp == InitApp /\ [][NextApp]_vars

-----------------------------------------------------------------------------
(* cmd/claudine/commands: runAnthropicOAuth and readSecureInput            *)
(*                                                                         *)
(* readSecureInput starts a goroutine that blocks in term.ReadPassword and *)
(* then sends its result on resultCh, and selects on ctx.Done() and on     *)
(* resultCh; runAnthropicOAuth hands the code it returns to Exchange.      *)

\* a channel made without a buffer, make(chan result): its capacity is that of
\* an empty queue
ResultChCap_Unbuffered == Len(<<>>)

\* make(chan result, 1)
ResultChCap == 1

\* the verifier of oauth2.GenerateVerifier (no '#' in it)
LoginVerifier == <<"v">>

ReadResult(value, err) == [value |-> value, err |-> err]
NoResult == ReadResult(<<>>, "none")
\* what term.ReadPassword may return: the typed text, or an error
ReadResults ==
    {ReadResult(v, "") : v \in SeqsUpTo(CodeChars, MaxCodeLen)}
      \cup {ReadResult(<<>>, "read failed")}

LoginRet(ok, err) == [ok |-> ok, err |-> err]
LoginPending == LoginRet(FALSE, "pending")

\* runAnthropicOAuth has printed the URL and called readSecureInput, which has made
\* the channel, started the reading goroutine and reached its select
InitLogin ==
    /\ HandlerIdle
    /\ tin = Idle
    /\ tout = Idle
    /\ AppIdle
    /\ loginPc = "select"
    /\ loginCtxDone \in BOOLEAN
    /\ reader = "reading"
    /\ readValue = NoResult
    /\ resultCh = <<>>
    /\ readRet = NoResult
    /\ loginRet = LoginPending

\* the command's context is cancelled (an interrupt)
CancelLogin ==
    /\ loginPc \notin {"none", "returned"}
    /\ ~loginCtxDone
    /\ loginCtxDone' = TRUE
    /\ UNCHANGED <<loginPc, reader, readValue, resultCh, readRet, loginRet>>
    /\ UNCHANGED <<hvars, tvars, avars>>

\* goroutine: term.ReadPassword returns
ReadPassword ==
    /\ reader = "reading"
    /\ \E r \in ReadResults : readValue' = r
    /\ reader' = "send"
    /\ UNCHANGED <<loginPc, loginCtxDone, resultCh, readRet, loginRet>>
    /\ UNCHANGED <<hvars, tvars, avars>>

\* goroutine: `resultCh <- result{...}`, which blocks while the buffer is full
SendResult ==
    /\ reader = "send"
    /\ Len(resultCh) < ResultChCap
    /\ resultCh' = Append(resultCh, readValue)
    /\ reader' = "done"
    /\ UNCHANGED <<loginPc, loginCtxDone, readValue, readRet, loginRet>>
    /\ UNCHANGED <<hvars, tvars, avars>>

\* select: `case <-ctx.Done(): return "", ctx.Err()`; runAnthropicOAuth returns the error
SelectDone ==
    /\ loginPc = "select"
    /\ loginCtxDone
    /\ readRet' = ReadResult(<<>>, "context canceled")
    /\ loginRet' = LoginRet(FALSE, "context canceled")
    /\ loginPc' = "returned"
    /\ UNCHANGED <<loginCtxDone, reader, readValue, resultCh>>
    /\ UNCHANGED <<hvars, tvars, avars>>

\* select: `case res := <-resultCh`; a read error is returned wrapped, and
\* runAnthropicOAuth returns it
SelectResult ==
    /\ loginPc = "select"
    /\ resultCh # <<>>
    /\ resultCh' = Tail(resultCh)
    /\ IF Head(resultCh).err # ""
         THEN /\ readRet' = ReadResult(<<>>, "failed to read input")
              /\ loginRet' = LoginRet(FALSE, "failed to read input")
              /\ loginPc' = "returned"
         ELSE /\ readRet' = ReadResult(Head(resultCh).value, "")
              /\ loginRet' = loginRet
              /\ loginPc' = "code"
    /\ UNCHANGED <<loginCtxDone, reader, readValue>>
    /\ UNCHANGED <<hvars, tvars, avars>>

\* runAnthropicOAuth: `if code == ""`, then authorizer.Exchange(ctx, code, verifier)
ExchangeLogin ==
    /\ loginPc = "code"
    /\ IF readRet.value = <<>>
         THEN loginRet' = LoginRet(FALSE, "authorization code cannot be empty")
         ELSE \E answer \in EndpointAnswers :
                LET r == Exchange(loginCtxDone, readRet.value, LoginVerifier, answer)
                IN  loginRet' = IF r.ok THEN LoginRet(TRUE, "")
                                ELSE LoginRet(FALSE, "failed to exchange authorization code")
    /\ loginPc' = "returned"
    /\ UNCHANGED <<loginCtxDone, reader, readValue, resultCh, readRet>>
    /\ UNCHANGED <<hvars, tvars, avars>>

NextLogin ==
    \/ CancelLogin
    \/ ReadPassword
    \/ SendResult
    \/ SelectDone
    \/ SelectResult
    \/ ExchangeLogin

\* the caller's goroutine is scheduled: a select with a ready case is taken
SpecLogin == InitLogin /\ [][NextLogin]_vars /\ WF_vars(SelectDone \/ SelectResult)

-----------------------------------------------------------------------------
(* Observations on a behaviour                                             *)

IsDoneMarker(w) == w.op = "raw" /\ w.payload = [t |-> "raw", text |-> "[DONE]"]
IsChunkFrame(w) == w.op = "data" /\ w.payload.t = "chunk"
IsErrorLine(w) == w.op = "event" /\ w.payload = [t |-> "name", name |-> "error"]
IsEnvelopeFrame(w) == w.op = "data" /\ w.payload.t = "envelope"

AllWritesOk == \A i \in DOMAIN log : log[i].ok
Returned == pc = "done"
\* the range loop ended because the iterator was exhausted
IteratorExhausted == up.eof
\* positions of the chunks among the yielded items
ChunkPositions == {i \in DOMAIN yielded : yielded[i].t = "chunk"}
LastYieldedIsError == yielded # <<>> /\ yielded[Len(yielded)].t = "error"
\* frames that reached the client before the iterator yielded its error
FramesSentBeforeError == \E i \in DOMAIN log : log[i].ok /\ IsChunkFrame(log[i])

-----------------------------------------------------------------------------
(* C1: in streaming mode, when the iterator ends without an error, no      *)
(* write fails and no loop check sees a cancelled context, the handler has *)
(* written one data frame per yielded chunk, in the order they were        *)
(* yielded, then exactly one [DONE] frame; and in every state nothing      *)
(* follows a [DONE] frame.                                                 *)
C1_StreamEndsWithDone ==
    /\ (Returned /\ IteratorExhausted /\ AllWritesOk) =>
         /\ Len(log) = Len(yielded) + 1
         /\ \A i \in DOMAIN yielded :
              /\ yielded[i].t = "chunk"
              /\ log[i].op = "data"
              /\ log[i].payload = yielded[i].chunk
         /\ IsDoneMarker(log[Len(log)])
    /\ \A i \in DOMAIN log : IsDoneMarker(log[i]) => (i = Len(log) /\ Returned)

\* a stream of at least two chunks was served to its [DONE]
C1_Witness ==
    /\ Returned /\ IteratorExhausted /\ AllWritesOk
    /\ Len(yielded) >= 2
    /\ IsDoneMarker(log[Len(log)])

-----------------------------------------------------------------------------
(* C2 as stated: when the iterator yields an error after one or more       *)
(* frames have been sent, the handler writes exactly one SSE error event   *)
(* (the `event: error` line and the data frame with the envelope), leaves  *)
(* the status at 200 and writes nothing more.                              *)
ExpectedStreamEnvelope(e) ==
    IF e.t = "typed" THEN e.env
    ELSE [t |-> "envelope", type |-> "api_error", message |-> e.msg]

\* the log is the chunk frames of the yielded chunks followed by one error event
OneErrorEventAfterFrames ==
    LET n == Len(yielded) - 1 IN
    /\ Len(log) = n + 2
    /\ \A i \in 1..n : log[i].ok /\ log[i].op = "data" /\ log[i].payload = yielded[i].chunk
    /\ IsErrorLine(log[n + 1]) /\ log[n + 1].ok
    /\ log[n + 2].op = "data" /\ log[n + 2].ok
    /\ log[n + 2].payload = ExpectedStreamEnvelope(yielded[n + 1].err)

C2_Original ==
    (Returned /\ LastYieldedIsError /\ FramesSentBeforeError) =>
        /\ OneErrorEventAfterFrames
        /\ status = 200

(* C2 as amended: the error event is written when the context is not       *)
(* cancelled and no write fails; in every case the handler writes at most  *)
(* the one error event after the frames, never a chunk frame or [DONE]     *)
(* after the error was yielded, and the status stays 200.                  *)
C2_ErrorEventAfterFrames ==
    (Returned /\ LastYieldedIsError /\ FramesSentBeforeError) =>
        LET n == Len(yielded) - 1 IN
        /\ status = 200
        /\ (~ctxErr /\ AllWritesOk) => OneErrorEventAfterFrames
        /\ Len(log) <= n + 2
        /\ \A i \in DOMAIN log :
             /\ ~IsDoneMarker(log[i])
             /\ i > n => (IF i = n + 1 THEN IsErrorLine(log[i]) ELSE IsEnvelopeFrame(log[i]))
             /\ i <= n => (IsChunkFrame(log[i]) /\ log[i].ok)

\* an error yielded after two chunk frames was answered with the error event
C2_Witness ==
    /\ Returned /\ LastYieldedIsError
    /\ Len(yielded) >= 3
    /\ ~ctxErr /\ AllWritesOk
    /\ OneErrorEventAfterFrames

-----------------------------------------------------------------------------
(* C3: in streaming mode an error that occurs before any SSE frame has     *)
(* been sent, returned by ProcessStreamingRequest or yielded as the first  *)
(* item of the iterator, is answered with a JSON error envelope and the    *)
(* status mapped from its type, never with an SSE error event.             *)
ErrorBeforeFirstFrame ==
    /\ req = "stream"
    /\ \/ adapterRet = "err"
       \/ yielded # <<>> /\ yielded[1].t = "error"

\* the error the client is to be told about
FirstError == IF adapterRet = "err" THEN adapterErr ELSE yielded[1].err

C3_PreFrameErrorIsJSON ==
    (Returned /\ ErrorBeforeFirstFrame /\ ~ctxErr /\ AllWritesOk) =>
        /\ Len(log) = 1
        /\ log[1].op = "json"
        /\ log[1].payload.t = "envelope"
        /\ FirstError.t = "typed" => log[1].payload = FirstError.env
        /\ status = log[1].status
        /\ status \in {400, 401, 403, 429, 500}

-----------------------------------------------------------------------------
(* C4: in streaming mode, once the request context is cancelled the        *)
(* handler attempts no further write to the client and asks the iterator   *)
(* for no further item, for every interleaving of the cancellation with    *)
(* the loop's steps (pull, check, write).                                  *)
IsStreamWrite(w) == w.op \in {"data", "event", "raw"}

C4_NoWriteNoPullAfterCancel ==
    /\ \A i \in DOMAIN log : IsStreamWrite(log[i]) => ~log[i].ctx
    /\ \A i \in DOMAIN pulled : i > 1 => ~pulled[i]

-----------------------------------------------------------------------------
(* C5: when the request context is cancelled after streaming has started   *)
(* and before the handler returns, the [DONE] marker is not written: a     *)
(* stream that ends with [DONE] was never cancelled while being served.    *)
StreamingStartedUncancelled == pulled # <<>> /\ ~pulled[1]

C5_NoDoneAfterCancel ==
    (Returned /\ StreamingStartedUncancelled /\ \E i \in DOMAIN log : IsDoneMarker(log[i]))
        => ~ctxErr

-----------------------------------------------------------------------------
(* C6: when the request context is cancelled before the upstream response  *)
(* arrives (before or during the adapter call), the handler writes nothing *)
(* to the client in either mode, also when the adapter returns an error    *)
(* because of the cancellation.                                            *)
C6_NoByteWhenCancelledBeforeResponse ==
    (req \in {"buffered", "stream"} /\ adapterRet # "ok") =>
        \A i \in DOMAIN log : ~log[i].ctx

-----------------------------------------------------------------------------
(* C10: writeJSONOpenAIError sends the envelope with the status given by   *)
(* its type: invalid_request_error 400, authentication_error 401,          *)
(* permission_denied 403, rate_limit_error and insufficient_quota 429,     *)
(* server_error, api_error and every other type 500; the envelope's type   *)
(* and message are sent unchanged.                                         *)
StatusTable ==
    [invalid_request_error |-> 400, authentication_error |-> 401, permission_denied |-> 403,
     rate_limit_error |-> 429, insufficient_quota |-> 429, server_error |-> 500,
     api_error |-> 500]

TableStatus(type) == IF type \in DOMAIN StatusTable THEN StatusTable[type] ELSE 500

C10_StatusFromErrorType ==
    /\ \A i \in DOMAIN log :
         (log[i].op = "json" /\ log[i].payload.t = "envelope") =>
             /\ log[i].status = TableStatus(log[i].payload.type)
             /\ status = log[i].status
             /\ ctype = "application/json"
    /\ (Returned /\ adapterRet = "err" /\ adapterErr.t = "typed") =>
         (Len(log) = 1 /\ log[1].op = "json" /\ log[1].payload = adapterErr.env)

\* an insufficient_quota error of the adapter was answered with 429
C10_Witness ==
    /\ Returned /\ adapterRet = "err" /\ adapterErr.t = "typed"
    /\ adapterErr.env.type = "insufficient_quota"
    /\ log[1].ok /\ log[1].status = 429 /\ status = 429

-----------------------------------------------------------------------------
(* C7: in a stream translated from an upstream event sequence that ends    *)
(* with message_stop, exactly one chunk carries a non-empty finish_reason  *)
(* and it is the last chunk, written immediately before [DONE]; no chunk   *)
(* emitted for a content-block event carries a finish_reason.              *)
HasFinish(it) == it.t = "chunk" /\ it.chunk.finish # ""
FinishPositions == {i \in DOMAIN yielded : HasFinish(yielded[i])}
EndedWithMessageStop == up.phase = "stopped"

C7_OneFinishReasonLast ==
    /\ EndedWithMessageStop =>
         /\ Cardinality(FinishPositions) = 1
         /\ HasFinish(yielded[Len(yielded)])
    /\ ~EndedWithMessageStop => FinishPositions = {}
    /\ \A i \in ChunkPositions : yielded[i].block >= 0 => yielded[i].chunk.finish = ""
    /\ (EndedWithMessageStop /\ \E i \in DOMAIN log : IsDoneMarker(log[i]) /\ log[i].ok) =>
         /\ Len(log) >= 2
         /\ IsChunkFrame(log[Len(log) - 1])
         /\ log[Len(log) - 1].payload.finish # ""
         /\ \A i \in 1..(Len(log) - 2) : IsChunkFrame(log[i]) /\ log[i].payload.finish = ""

\* a stream with content ended by message_stop without a stop reason and was sent to [DONE]
C7_Witness ==
    /\ EndedWithMessageStop /\ Returned
    /\ st.finalStopReason = ""
    /\ Len(yielded) >= 3
    /\ IsDoneMarker(log[Len(log)]) /\ log[Len(log)].ok
    /\ log[Len(log) - 1].payload.finish = "stop"

-----------------------------------------------------------------------------
(* C8: in a stream that has chunks, exactly one chunk carries              *)
(* delta.role = "assistant" and it is the first item of the stream: no     *)
(* content or tool-call chunk comes before it, no later chunk has a role.  *)
C8_RoleChunkFirst ==
    ChunkPositions # {} =>
        /\ yielded[1].t = "chunk"
        /\ yielded[1].chunk.role
        /\ yielded[1].chunk.content = "" /\ yielded[1].chunk.toolIndex = -1
        /\ \A i \in ChunkPositions : i > 1 => ~yielded[i].chunk.role

\* a stream with a content chunk and a tool-call chunk after the role chunk
C8_Witness ==
    /\ Len(yielded) >= 3
    /\ yielded[1].t = "chunk" /\ yielded[1].chunk.role
    /\ \E i \in ChunkPositions : yielded[i].chunk.content # ""
    /\ \E i \in ChunkPositions : yielded[i].chunk.toolIndex # -1

-----------------------------------------------------------------------------
(* C9: the tool-call indices emitted are exactly 0..k-1 for the k tool_use *)
(* blocks opened, each index first appears in ascending order, and every   *)
(* input_json_delta of upstream block b carries the index assigned when b  *)
(* opened, whatever text or thinking blocks are interleaved.               *)
ToolChunkPositions == {i \in ChunkPositions : yielded[i].chunk.toolIndex # -1}
ToolStartPositions == {i \in ToolChunkPositions : yielded[i].chunk.toolId # -1}
EmittedToolIndices == {yielded[i].chunk.toolIndex : i \in ToolChunkPositions}
FirstAppearance(n) ==
    CHOOSE i \in ToolChunkPositions :
        /\ yielded[i].chunk.toolIndex = n
        /\ \A j \in ToolChunkPositions : yielded[j].chunk.toolIndex = n => i <= j

C9_ToolIndicesDense ==
    /\ EmittedToolIndices = 0..(up.toolBlocks - 1)
    /\ \A n, m \in EmittedToolIndices : n < m => FirstAppearance(n) < FirstAppearance(m)
    /\ \A n \in EmittedToolIndices : FirstAppearance(n) \in ToolStartPositions
    /\ \A j \in ToolChunkPositions \ ToolStartPositions :
         \E i \in ToolStartPositions :
             /\ i < j
             /\ yielded[i].block = yielded[j].block
             /\ yielded[i].chunk.toolIndex = yielded[j].chunk.toolIndex
    /\ \A i, j \in ToolStartPositions :
         i # j => /\ yielded[i].block # yielded[j].block
                  /\ yielded[i].chunk.toolIndex # yielded[j].chunk.toolIndex

\* a delta of upstream block 2 was emitted under tool-call index 1
C9_Witness ==
    /\ up.toolBlocks = 2
    /\ \E j \in ToolChunkPositions \ ToolStartPositions :
         yielded[j].block = 2 /\ yielded[j].chunk.toolIndex = 1

-----------------------------------------------------------------------------
\* an upstream error answer whose JSON parsed, handed to toChatCompletionError
IsNormalizedUpstreamError ==
    /\ tin.op = "toChatCompletionError"
    /\ tin.arg.err.kind \in {"api", "stream"}
    /\ tin.arg.err.parses

UpstreamErrorTable ==
    [overloaded_error |-> "server_error", timeout_error |-> "server_error",
     rate_limit_error |-> "rate_limit_error",
     invalid_request_error |-> "invalid_request_error",
     not_found_error |-> "invalid_request_error",
     authentication_error |-> "authentication_error",
     permission_error |-> "permission_denied",
     api_error |-> "api_error",
     billing_error |-> "insufficient_quota"]

(* C11: every upstream error is normalized by its type as the table says:  *)
(* overloaded_error and timeout_error to server_error, rate_limit_error to *)
(* rate_limit_error, invalid_request_error and not_found_error to          *)
(* invalid_request_error, authentication_error to authentication_error,    *)
(* permission_error to permission_denied, api_error to api_error,          *)
(* billing_error to insufficient_quota, an unknown type to api_error; the  *)
(* client type depends on the upstream type alone (not on the path, the    *)
(* message or the revision of the file).                                   *)
C11_UpstreamErrorTable ==
    (IsNormalizedUpstreamError /\ tin.arg.err.type # "request_too_large") =>
        /\ tout.type = IF tin.arg.err.type \in DOMAIN UpstreamErrorTable
                         THEN UpstreamErrorTable[tin.arg.err.type]
                         ELSE "api_error"
        /\ tout.message = tin.arg.err.message

\* a billing_error of the streaming path came out as insufficient_quota
C11_Witness ==
    /\ IsNormalizedUpstreamError
    /\ tin.arg.err.kind = "stream"
    /\ tin.arg.err.type = "billing_error"
    /\ tout.type = "insufficient_quota"

-----------------------------------------------------------------------------
(* C12: an upstream error of type request_too_large is normalized to the   *)
(* client type invalid_request_error, in the buffered and in the streaming *)
(* error path.                                                             *)
C12_RequestTooLargeIsInvalidRequest ==
    (IsNormalizedUpstreamError /\ tin.arg.err.type = "request_too_large") =>
        tout.type = "invalid_request_error"

-----------------------------------------------------------------------------
(* C13: when the request body exceeds the byte limit the handler answers   *)
(* with status 413 and an envelope of type invalid_request_error with the  *)
(* message "Request Entity Too Large", and never invokes the adapter.      *)
C13_OversizeBodyIs413 ==
    (Returned /\ req = "too_large") =>
        /\ Len(log) = 1
        /\ log[1].op = "json"
        /\ log[1].payload = Envelope("invalid_request_error", "Request Entity Too Large")
        /\ log[1].status = 413
        /\ status = 413
        /\ adapterRet = "none"

-----------------------------------------------------------------------------
(* C14: on every failure path of the endpoint (decode failure, oversize    *)
(* body, typed or untyped adapter error, SSE not supported, typed or       *)
(* untyped mid-stream error, handler panic) the response body or the       *)
(* terminal SSE event is an envelope {error:{message,type}} whose type is  *)
(* one of the seven client error kinds.                                    *)
Panicked == \E i \in DOMAIN log : log[i].op = "text"
SSENotSupported == req = "stream" /\ adapterRet = "ok" /\ log # <<>> /\ log[1].op = "json"

FailurePath ==
    \/ req \in {"bad", "too_large"}
    \/ adapterRet \in {"err", "panic"}
    \/ SSENotSupported
    \/ LastYieldedIsError
    \/ Panicked

\* the errors of the adapter are envelopes made by toChatCompletionError
AdapterErrorInTaxonomy ==
    adapterErr.t = "typed" => adapterErr.env.type \in ClientErrorTypes

C14_FailureBodyIsEnvelope ==
    (Returned /\ FailurePath /\ AdapterErrorInTaxonomy /\ ~ctxErr /\ AllWritesOk) =>
        /\ log # <<>>
        /\ log[Len(log)].op \in {"json", "data"}
        /\ log[Len(log)].payload.t = "envelope"
        /\ log[Len(log)].payload.type \in ClientErrorTypes
        /\ log[Len(log)].op = "data" => (Len(log) >= 2 /\ IsErrorLine(log[Len(log) - 1]))

-----------------------------------------------------------------------------
(* C15: an error produced by request translation (unsupported feature,     *)
(* malformed content, missing field) reaches the client as an envelope of  *)
(* type invalid_request_error with HTTP 400, in buffered mode and in       *)
(* streaming mode before the first frame.                                  *)
C15_TranslationErrorIs400 ==
    tin.op = "ProcessRequest" =>
        /\ tout.body.t = "envelope"
        /\ tout.body.type = "invalid_request_error"
        /\ tout.status = 400

-----------------------------------------------------------------------------
\* a request was translated, with success
Translated == tin.op = "translate" /\ tout.ok

\* the texts of a list of messages joined by "\n", from the last one backwards
RECURSIVE JoinedTexts(_)
JoinedTexts(ms) ==
    IF ms = <<>> THEN ""
    ELSE IF Len(ms) = 1 THEN ms[1].content.text
    ELSE JoinedTexts(SubSeq(ms, 1, Len(ms) - 1)) \o "\n" \o ms[Len(ms)].content.text

IsSystemOrDeveloper(m) == m.role = "system" \/ m.role = "developer"
IsConversation(m) == m.role \in {"user", "assistant", "tool"}

\* what a block says: the role of its message, its kind, and its text or id
BlockTrace(role, b) == <<role, b.kind, b.text, b.id>>

\* the blocks of an upstream message list, in order
RECURSIVE UpstreamTrace(_)
UpstreamTrace(ums) ==
    IF ums = <<>> THEN <<>>
    ELSE [i \in 1..Len(ums[1].blocks) |-> BlockTrace(ums[1].role, ums[1].blocks[i])]
           \o UpstreamTrace(Tail(ums))

\* what a client message has to say upstream: a user message its content
\* blocks, an assistant message its text and its tool calls, a tool message
\* the id it answers
ClientTraceOf(m) ==
    CASE m.role = "user" ->
           [i \in 1..Len(fromContentParts(m.content).val) |->
               BlockTrace("user", fromContentParts(m.content).val[i])]
      [] m.role = "assistant" ->
           (IF m.content.text = "" THEN <<>> ELSE <<<<"assistant", "text", m.content.text, "">>>>)
             \o [i \in 1..Len(m.toolCalls) |-> <<"assistant", "tool_use", "", m.toolCalls[i]>>]
      [] m.role = "tool" -> <<<<"user", "tool_result", "", m.toolCallId>>>>
      [] OTHER -> <<>>

RECURSIVE ClientTrace(_)
ClientTrace(ms) ==
    IF ms = <<>> THEN <<>> ELSE ClientTraceOf(Head(ms)) \o ClientTrace(Tail(ms))

HoistedTexts == {"A", "B", "C"}

(* C16: for every client message list, the upstream system string is the   *)
(* texts of the system and developer messages in their input order joined  *)
(* by a single "\n", none of those messages appears in the upstream        *)
(* message list, and the remaining user/assistant/tool messages keep their *)
(* relative order.                                                         *)
C16_SystemHoistingKeepsOrder ==
    Translated =>
        /\ tout.val.system = JoinedTexts(SelectSeq(tin.arg.messages, IsSystemOrDeveloper))
        /\ \A i \in DOMAIN tout.val.messages :
             /\ tout.val.messages[i].role \in {"user", "assistant"}
             /\ \A j \in DOMAIN tout.val.messages[i].blocks :
                  tout.val.messages[i].blocks[j].text \notin HoistedTexts
        /\ UpstreamTrace(tout.val.messages)
             = ClientTrace(SelectSeq(tin.arg.messages, IsConversation))

\* scenario S2 with a message more: system A, user q, developer B, system C
C16_Witness ==
    /\ Translated
    /\ tin.arg.messages = <<SystemMessage("A"), UserMessage(StringContent("q")),
                            DeveloperMessage("B"), SystemMessage("C")>>
    /\ tout.val.system = "A\nB\nC"
    /\ Len(tout.val.messages) = 1
    /\ tout.val.messages[1].blocks = <<TextBlock("q")>>

-----------------------------------------------------------------------------
\* the conversation messages of the translated request, in input order
Conversation == SelectSeq(tin.arg.messages, IsConversation)

\* a tool message that does not follow a tool message opens a run
OpensUpstreamMessage(conv, k) ==
    conv[k].role # "tool" \/ k = 1 \/ conv[k - 1].role # "tool"

\* the place upstream of the message made for conversation message i
UpstreamIndex(conv, i) == Cardinality({k \in 1..i : OpensUpstreamMessage(conv, k)})

\* the last message of the run of tool messages that starts at i
RECURSIVE ToolRunEnd(_, _)
ToolRunEnd(conv, i) ==
    IF i < Len(conv) /\ conv[i + 1].role = "tool" THEN ToolRunEnd(conv, i + 1) ELSE i

\* the ids of the blocks of one kind, in block order
RECURSIVE BlockIds(_, _)
BlockIds(blocks, kind) ==
    IF blocks = <<>> THEN <<>>
    ELSE (IF Head(blocks).kind = kind THEN <<Head(blocks).id>> ELSE <<>>)
           \o BlockIds(Tail(blocks), kind)

\* conversation message i is an assistant message with tool calls that a
\* tool message follows
AssistantWithToolResults(conv, i) ==
    /\ i < Len(conv)
    /\ conv[i].role = "assistant"
    /\ conv[i].toolCalls # <<>>
    /\ conv[i + 1].role = "tool"

(* C17: for an assistant message with tool calls T1..Tn followed by        *)
(* tool-role messages, the upstream request has one assistant message      *)
(* whose tool_use blocks carry the same ids in the same order, followed by *)
(* exactly one user message in which the consecutive tool messages are     *)
(* merged as tool_result blocks carrying their tool_call_ids in the same   *)
(* order.                                                                  *)
C17_ToolIdsRoundTrip ==
    Translated =>
        \A i \in DOMAIN Conversation :
            AssistantWithToolResults(Conversation, i) =>
                LET u == UpstreamIndex(Conversation, i)
                    j == ToolRunEnd(Conversation, i + 1)
                    upstream == tout.val.messages
                IN /\ u + 1 <= Len(upstream)
                   /\ upstream[u].role = "assistant"
                   /\ BlockIds(upstream[u].blocks, "tool_use") = Conversation[i].toolCalls
                   /\ upstream[u + 1].role = "user"
                   /\ upstream[u + 1].blocks
                        = [k \in 1..(j - i) |-> ToolResultBlock(Conversation[i + k].toolCallId)]
                   /\ u + 2 <= Len(upstream) => ~IsToolResultMessage(upstream[u + 2])

\* user q, assistant calling t1 and t2, then the two tool results
C17_Witness ==
    /\ Translated
    /\ tin.arg.messages = <<UserMessage(StringContent("q")), AssistantMessage("a", <<"t1", "t2">>),
                            ToolMessage("r1", "t1"), ToolMessage("r2", "t2")>>
    /\ Len(tout.val.messages) = 3
    /\ tout.val.messages[2].blocks = <<TextBlock("a"), ToolUseBlock("t1"), ToolUseBlock("t2")>>
    /\ tout.val.messages[3] = UpstreamMessage("user", <<ToolResultBlock("t1"), ToolResultBlock("t2")>>)

-----------------------------------------------------------------------------
\* a message list that starts with a user message and alternates after it
Alternates(upstream) ==
    /\ upstream # <<>> => upstream[1].role = "user"
    /\ \A i \in 1..(Len(upstream) - 1) : upstream[i].role # upstream[i + 1].role

(* C18: for every client request that translates successfully, the         *)
(* upstream message list starts with a user message and strictly           *)
(* alternates user/assistant after it (tool results counting as user),     *)
(* whatever the order of roles in the client's message list.               *)
C18_UpstreamAlternates == Translated => Alternates(tout.val.messages)

-----------------------------------------------------------------------------
\* a content part without an Anthropic analog: input audio, or a file by id
IsUnsupportedPart(part) ==
    \/ part.type = "input_audio"
    \/ part.type = "file" /\ part.file.fileId # ""

HasUnsupportedPart(parts) == \E i \in DOMAIN parts : IsUnsupportedPart(parts[i])

HasCustomTool(tools) == \E i \in DOMAIN tools : tools[i].type = "custom"

\* a named-custom tool choice or an allowed_tools tool choice
IsUnsupportedChoice(toolChoice) ==
    toolChoice.json = "object" /\ toolChoice.type \in {"custom", "allowed_tools"}

\* the request uses one of the features in a place the translator reads
UsesUnsupportedFeature(r) ==
    \/ \E i \in DOMAIN r.messages :
          /\ r.messages[i].role = "user"
          /\ HasUnsupportedPart(r.messages[i].content.parts)
    \/ HasCustomTool(r.tools)
    \/ IsUnsupportedChoice(r.toolChoice)

\* the operation failed: an error, and no upstream value
Failed == ~tout.ok /\ tout.err # "" /\ tout.val = <<>>

(* C19: a request that uses an OpenAI feature without an Anthropic analog  *)
(* (an input-audio content part, a file part with file_id, a custom tool   *)
(* definition, a named-custom tool choice, or an allowed_tools tool        *)
(* choice) makes translation fail with an error: no upstream value is      *)
(* produced for it, and the feature is never dropped or replaced by a      *)
(* default.                                                                *)
C19_UnsupportedFeatureFails ==
    /\ (tin.op = "fromContentParts" /\ tin.arg.form = "user"
           /\ HasUnsupportedPart(tin.arg.parts)) => Failed
    /\ (tin.op = "fromChatCompletionTools" /\ HasCustomTool(tin.arg)) => Failed
    /\ (tin.op = "fromToolChoiceOption" /\ IsUnsupportedChoice(tin.arg)) => Failed
    /\ (tin.op = "translate" /\ UsesUnsupportedFeature(tin.arg)) => Failed

\* a request whose user message has an audio part after a text part
C19_Witness ==
    /\ tin.op = "translate"
    /\ tin.arg.messages = <<UserMessage(PartsContent("user", <<TextPart("p"), AudioPart>>))>>
    /\ ~tout.ok
    /\ tout.err = "audio content not supported"
    /\ tout.val = <<>>

-----------------------------------------------------------------------------
\* fromToolChoiceOption was applied to this choice
ChoiceGiven(json, value, type) ==
    /\ tin.op = "fromToolChoiceOption"
    /\ tin.arg.json = json
    /\ tin.arg.value = value
    /\ tin.arg.type = type

\* it returned this upstream choice, without error
ChoiceIs(kind, name) == tout.ok /\ tout.err = "" /\ tout.val = UpstreamChoice(kind, name)

(* C20: fromToolChoiceOption maps the string none to none, auto to auto,   *)
(* required to any, a named function choice to the tool with that name,    *)
(* and an absent choice to auto; a named-custom choice and an              *)
(* allowed_tools choice fail with an error.                                *)
C20_ToolChoiceTable ==
    /\ ChoiceGiven("nil", "", "") => ChoiceIs("auto", "")
    /\ ChoiceGiven("string", "none", "") => ChoiceIs("none", "")
    /\ ChoiceGiven("string", "auto", "") => ChoiceIs("auto", "")
    /\ ChoiceGiven("string", "required", "") => ChoiceIs("any", "")
    /\ ChoiceGiven("object", "", "function") => ChoiceIs("tool", tin.arg.name)
    /\ ChoiceGiven("object", "", "custom") => Failed
    /\ ChoiceGiven("object", "", "allowed_tools") => Failed

\* tool_choice "required" became the upstream choice any
C20_Witness ==
    /\ ChoiceGiven("string", "required", "")
    /\ ChoiceIs("any", "")

-----------------------------------------------------------------------------
\* fromChatCompletionTools translated function tools
ToolsTranslated == tin.op = "fromChatCompletionTools" /\ tout.ok /\ tin.arg # <<>>

\* the texts of the elements of a JSON array, whatever their kind
ItemTexts(items) == [i \in DOMAIN items |-> items[i].text]

\* the upstream schema has the client's properties, when the client has any
CarriesProperties(schema, parameters) ==
    "properties" \in DOMAIN parameters => schema.properties = parameters["properties"]

\* every key of `keys` is in the bag with the client's value
BagKeeps(schema, parameters, keys) ==
    \A k \in keys : k \in DOMAIN schema.extraFields /\ schema.extraFields[k] = parameters[k]

\* C21 as stated: properties and required are carried, and every other key
\* of the client parameters map is in the additional-fields bag with its value
C21_Original ==
    ToolsTranslated =>
        \A i \in DOMAIN tin.arg :
            LET parameters == tin.arg[i].parameters
                schema == tout.val[i].inputSchema
            IN /\ CarriesProperties(schema, parameters)
               /\ "required" \in DOMAIN parameters =>
                     /\ parameters["required"].kind = "array"
                     /\ schema.required = ItemTexts(parameters["required"].items)
               /\ BagKeeps(schema, parameters, DOMAIN parameters \ {"properties", "required"})

(* C21 (amended): for every function tool, the upstream input_schema       *)
(* carries the client schema's `properties`, and of a `required` that is   *)
(* an array its string elements in order (no `required` otherwise); every  *)
(* key of the client parameters map other than type, properties and        *)
(* required is in the additional-fields bag with its value, the bag holds  *)
(* no other key, and the schema's type is "object" whatever the client's   *)
(* `type` says.                                                            *)
C21_SchemaSplit ==
    ToolsTranslated =>
        \A i \in DOMAIN tin.arg :
            LET parameters == tin.arg[i].parameters
                schema == tout.val[i].inputSchema
                required == IF "required" \in DOMAIN parameters
                              THEN parameters["required"] ELSE JSONNull
            IN /\ CarriesProperties(schema, parameters)
               /\ schema.required
                    = IF required.kind = "array"
                        THEN ItemTexts(SelectSeq(required.items, LAMBDA v : v.kind = "string"))
                        ELSE <<>>
               /\ DOMAIN schema.extraFields = DOMAIN parameters \ {"type", "properties", "required"}
               /\ BagKeeps(schema, parameters, DOMAIN schema.extraFields)
               /\ schema.type = "object"

\* a function tool with a complete schema was translated
C21_Witness ==
    /\ ToolsTranslated
    /\ Len(tin.arg) = 1
    /\ DOMAIN tin.arg[1].parameters = {"type", "properties", "required", "additionalProperties"}
    /\ tout.val[1].inputSchema.required = <<"a", "b">>
    /\ DOMAIN tout.val[1].inputSchema.extraFields = {"additionalProperties"}
    /\ tout.val[1].inputSchema.extraFields["additionalProperties"].text = "false"

-----------------------------------------------------------------------------
\* fromContentParts was applied to a user content made of parts of one type
UserPartsOfType(type) ==
    /\ tin.op = "fromContentParts"
    /\ tin.arg.form = "user"
    /\ tin.arg.parts # <<>>
    /\ \A i \in DOMAIN tin.arg.parts : tin.arg.parts[i].type = type

\* a data: URI of the form data:<mime>;base64,<payload> with a payload that
\* is base64 (the media type may be empty)
IsDataURI(image) == image.scheme = "data" /\ image.commas = 1 /\ image.base64

IsHTTPURL(image) == image.scheme \in {"http", "https"}

\* the block the claim gives an image URL
ImageBlockOf(image) ==
    IF IsDataURI(image)
      THEN ImageBlockBase64(IF image.mime = "" THEN "image/jpeg" ELSE image.mime)
      ELSE ImageBlockURL

(* C22: an image-url part is translated by its URL: a data: URI gives a    *)
(* base64 image block whose media type is the one named in the URI, or     *)
(* image/jpeg when the URI names none; an http:// or https:// URL gives a  *)
(* URL-source image block; every other URL (a data: URL that is not of     *)
(* the form data:<mime>;base64,<payload> included) fails with an error and *)
(* produces no block.                                                      *)
C22_ImageByURL ==
    UserPartsOfType("image_url") =>
        IF \A i \in DOMAIN tin.arg.parts :
               IsDataURI(tin.arg.parts[i].image) \/ IsHTTPURL(tin.arg.parts[i].image)
          THEN /\ tout.ok
               /\ tout.val = [i \in DOMAIN tin.arg.parts |-> ImageBlockOf(tin.arg.parts[i].image)]
          ELSE Failed

\* a data: URI that names no media type became an image/jpeg block
C22_Witness ==
    /\ UserPartsOfType("image_url")
    /\ Len(tin.arg.parts) = 1
    /\ IsDataURI(tin.arg.parts[1].image)
    /\ tin.arg.parts[1].image.mime = ""
    /\ tout.ok
    /\ tout.val = <<ImageBlockBase64("image/jpeg")>>

-----------------------------------------------------------------------------
\* what each source of a MIME type gives, "" when it gives nothing
Sniffed(data) ==
    IF DetectContentType(data) = "application/octet-stream" THEN "" ELSE DetectContentType(data)
Declared(declaredType) ==
    IF declaredType = "application/octet-stream" THEN "" ELSE declaredType
ByExtension(filename) == IF filename = "" THEN "" ELSE TypeByExtension(filename)

\* the first source in priority order that gives something
RECURSIVE FirstGiven(_)
FirstGiven(sources) ==
    IF Len(sources) = 1 \/ Head(sources) # "" THEN Head(sources) ELSE FirstGiven(Tail(sources))

\* the MIME type the priority order gives a file
MIMETypeOf(data, declaredType, filename) ==
    FirstGiven(<<Sniffed(data), Declared(declaredType), ByExtension(filename),
                 "application/octet-stream">>)

\* the outcome the claim gives a file part
FileOutcome(file) ==
    IF file.fileId # "" \/ file.fileData \in {"", "badb64"} THEN "fails"
    ELSE LET mimeType == MIMETypeOf(file.fileData, "", file.filename)
         IN IF mimeType = "application/pdf" THEN "pdf"
            ELSE IF IsTextMIME(mimeType) THEN "text"
            ELSE "fails"

(* C23: a file part with file_id fails; a file part with file_data is      *)
(* base64-decoded (it fails when there is no file_data or it is no         *)
(* base64) and its MIME type is chosen in the priority order content       *)
(* sniffing, declared type, filename extension, application/octet-stream,  *)
(* a later source being used only when every earlier one gives nothing;    *)
(* application/pdf gives a PDF document block, text/* a plain-text         *)
(* document block, and any other type fails.                               *)
C23_FileByMIMEType ==
    /\ tin.op = "detectMIMEType" =>
          tout.mimeType = MIMETypeOf(tin.arg.data, tin.arg.declaredType, tin.arg.filename)
    /\ (UserPartsOfType("file") /\ Len(tin.arg.parts) = 1) =>
          LET file == tin.arg.parts[1].file
          IN CASE FileOutcome(file) = "pdf" ->
                    tout.ok /\ tout.val = <<DocumentBlock("pdf", file.filename)>>
               [] FileOutcome(file) = "text" ->
                    tout.ok /\ tout.val = <<DocumentBlock("text", file.filename)>>
               [] OTHER -> Failed

\* data of unknown content with a declared type and a .pdf name: the
\* declared type is taken
C23_Witness ==
    /\ tin.op = "detectMIMEType"
    /\ tin.arg.data = "bin"
    /\ tin.arg.declaredType = "text/csv"
    /\ tin.arg.filename = "a.pdf"
    /\ tout.mimeType = "text/csv"

-----------------------------------------------------------------------------
\* buildThinking was applied
ThinkingBuilt == tin.op = "buildThinking"

\* it returned this configuration, without error
ThinkingIs(type, budget) == tout.ok /\ tout.err = "" /\ tout.val = Thinking(type, budget)

\* the budget of a reasoning_effort that has one
BudgetOfEffort(effort) ==
    CASE effort = "low" -> 1024
      [] effort = "medium" -> 8192
      [] effort = "high" -> 24576

(* C24: buildThinking maps reasoning_effort low to thinking enabled with   *)
(* budget 1024, medium to 8192, high to 24576; with any other value, or    *)
(* none, and no extra_body.thinking, thinking is left unset and no error   *)
(* is returned.                                                            *)
C24_EffortBudgets ==
    (ThinkingBuilt /\ ~tin.arg.extra.present) =>
        IF tin.arg.effort \in {"low", "medium", "high"}
          THEN ThinkingIs("enabled", BudgetOfEffort(tin.arg.effort))
          ELSE ThinkingIs("unset", 0)

\* reasoning_effort high alone
C24_Witness ==
    /\ ThinkingBuilt
    /\ tin.arg.effort = "high"
    /\ ~tin.arg.extra.present
    /\ ThinkingIs("enabled", 24576)

\* extra_body.thinking has type "enabled" and no budget_tokens
EnabledWithoutBudget ==
    /\ ThinkingBuilt
    /\ tin.arg.extra.present
    /\ tin.arg.extra.type = "enabled"
    /\ ~tin.arg.extra.hasBudget

(* C25: when extra_body.thinking has type "enabled" and no budget_tokens,  *)
(* buildThinking succeeds with the budget set by reasoning_effort exactly  *)
(* when reasoning_effort is low, medium or high, and fails with an error   *)
(* when reasoning_effort is absent or has an unknown value.                *)
C25_EnabledNeedsBudget ==
    EnabledWithoutBudget =>
        IF tin.arg.effort \in {"low", "medium", "high"}
          THEN ThinkingIs("enabled", BudgetOfEffort(tin.arg.effort))
          ELSE Failed

\* an unknown reasoning_effort gives no budget: the call fails
C25_Witness ==
    /\ EnabledWithoutBudget
    /\ tin.arg.effort = "minimal"
    /\ Failed

(* C26: when extra_body.thinking is present it takes precedence over       *)
(* reasoning_effort: {type:"enabled", budget_tokens:N} yields thinking     *)
(* enabled with budget N and {type:"disabled"} yields thinking disabled,   *)
(* whatever value reasoning_effort has.                                    *)
C26_ExtraBodyWins ==
    (ThinkingBuilt /\ tin.arg.extra.present) =>
        /\ (tin.arg.extra.type = "enabled" /\ tin.arg.extra.hasBudget) =>
              ThinkingIs("enabled", tin.arg.extra.budget)
        /\ tin.arg.extra.type = "disabled" => ThinkingIs("disabled", 0)

\* reasoning_effort high and a budget of 16000 in extra_body
C26_Witness ==
    /\ ThinkingBuilt
    /\ tin.arg.effort = "high"
    /\ tin.arg.extra.present
    /\ tin.arg.extra.type = "enabled"
    /\ tin.arg.extra.hasBudget
    /\ ThinkingIs("enabled", 16000)

-----------------------------------------------------------------------------
\* the finish_reason the claim gives a stop reason
FinishReasonTable(stopReason) ==
    CASE stopReason = "end_turn"      -> "stop"
      [] stopReason = "max_tokens"    -> "length"
      [] stopReason = "stop_sequence" -> "stop"
      [] stopReason = "tool_use"      -> "tool_calls"
      [] stopReason = "refusal"       -> "content_filter"
      [] stopReason = "pause_turn"    -> "stop"
      [] OTHER                        -> "stop"

(* C27: toFinishReason and toFinishReasonStreaming both map end_turn to    *)
(* stop, max_tokens to length, stop_sequence to stop, tool_use to          *)
(* tool_calls, refusal to content_filter, pause_turn to stop and every     *)
(* other value (the empty one included) to stop, so the two modes give the *)
(* same finish_reason for every upstream stop reason.                      *)
C27_FinishReasonsAgree ==
    tin.op = "toFinishReason" =>
        /\ tout.buffered = FinishReasonTable(tin.arg.stopReason)
        /\ tout.streaming = FinishReasonTable(tin.arg.stopReason)
        /\ tout.buffered = tout.streaming

\* a refusal is content_filter in both modes
C27_Witness ==
    /\ tin.op = "toFinishReason"
    /\ tin.arg.stopReason = "refusal"
    /\ tout.buffered = "content_filter"
    /\ tout.streaming = "content_filter"

-----------------------------------------------------------------------------
\* the tool_use blocks of the response the function was applied to
ToolUses == SelectSeq(tin.arg.content, LAMBDA b : b.kind = "tool_use")

(* C28: toChatCompletionMessageToolCalls returns exactly one tool call per *)
(* upstream tool_use block, in block order, each of type function with the *)
(* block's name, the block's id when it is non-empty (a generated call_ id *)
(* otherwise) and the block's input as arguments ("{}" when the input is   *)
(* empty); blocks of other kinds add nothing, and the result is absent     *)
(* when there is no tool_use block.                                        *)
C28_OneToolCallPerToolUse ==
    tin.op = "toChatCompletionMessageToolCalls" =>
        /\ tout.present <=> ToolUses # <<>>
        /\ Len(tout.toolCalls) = Len(ToolUses)
        /\ \A i \in DOMAIN tout.toolCalls :
             /\ tout.toolCalls[i].type = "function"
             /\ tout.toolCalls[i].name = ToolUses[i].name
             /\ IF ToolUses[i].id # "" THEN tout.toolCalls[i].id = ToolUses[i].id
                 ELSE tout.toolCalls[i].id \in GeneratedIDs
             /\ tout.toolCalls[i].arguments
                  = IF ToolUses[i].input = "" THEN "{}" ELSE ToolUses[i].input

\* a text block, a tool_use block with id and input, a tool_use block
\* without either
C28_Witness ==
    /\ tin.op = "toChatCompletionMessageToolCalls"
    /\ tin.arg.content = <<ResponseBlock("text", "", "", ""),
                           ResponseBlock("tool_use", "t1", "f", "{a:1}"),
                           ResponseBlock("tool_use", "", "g", "")>>
    /\ tout.present
    /\ Len(tout.toolCalls) = 2
    /\ tout.toolCalls[1] = ToolCall("t1", "f", "{a:1}")
    /\ tout.toolCalls[2].id \in GeneratedIDs
    /\ tout.toolCalls[2].arguments = "{}"

-----------------------------------------------------------------------------
\* toCompletionUsage was applied
UsageConverted == tin.op = "toCompletionUsage"

\* the token counts are copied and the cached tokens are present exactly
\* when cache_read_input_tokens > 0, and then equal to it
CountsAndCacheCarried ==
    /\ tout.promptTokens = tin.arg.inputTokens
    /\ tout.completionTokens = tin.arg.outputTokens
    /\ tout.hasDetails <=> tin.arg.cacheReadInputTokens > 0
    /\ tout.hasDetails => tout.cachedTokens = tin.arg.cacheReadInputTokens

\* C29 as stated: for every usage the total is the sum of the two counts
C29_Original ==
    UsageConverted =>
        /\ CountsAndCacheCarried
        /\ tout.totalTokens = tout.promptTokens + tout.completionTokens

(* C29 (amended): toCompletionUsage gives prompt_tokens = input_tokens and *)
(* completion_tokens = output_tokens for every usage, and total_tokens =   *)
(* prompt_tokens + completion_tokens for every usage whose sum is within   *)
(* the range of int64 (beyond it total_tokens is the sum wrapped to 64     *)
(* bits); prompt_tokens_details.cached_tokens is present exactly when      *)
(* cache_read_input_tokens > 0 and then equals it.                         *)
C29_UsageMapping ==
    UsageConverted =>
        /\ CountsAndCacheCarried
        /\ tout.promptTokens + tout.completionTokens \in TokenCounts =>
              tout.totalTokens = tout.promptTokens + tout.completionTokens
        /\ tout.promptTokens + tout.completionTokens > MaxTokens =>
              tout.totalTokens = tout.promptTokens + tout.completionTokens - 2 ^ TokenBits
        /\ tout.promptTokens + tout.completionTokens < MinTokens =>
              tout.totalTokens = tout.promptTokens + tout.completionTokens + 2 ^ TokenBits

\* counts whose sum is in range, with cache reads
C29_Witness ==
    /\ UsageConverted
    /\ tin.arg = Usage(3, 2, 1)
    /\ tout = [op |-> "toCompletionUsage"] @@ CompletionUsage(3, 2, 5, TRUE, 1)

-----------------------------------------------------------------------------
(* C30: a request body that cannot be decoded as a chat-completion request *)
(* (and is within the size limit) is answered with HTTP 400 and an         *)
(* envelope of type invalid_request_error, and neither ProcessRequest nor  *)
(* ProcessStreamingRequest is invoked.                                     *)
C30_UndecodableBodyIs400 ==
    req = "bad" =>
        /\ pc = "done"
        /\ status = 400
        /\ ctype = "application/json"
        /\ Len(log) = 1
        /\ log[1].op = "json"
        /\ log[1].status = 400
        /\ log[1].payload.t = "envelope"
        /\ log[1].payload.type = "invalid_request_error"
        /\ adapterRet = "none"
        /\ adapterErr = NoErr
        /\ yielded = <<>>

\* the body did not decode and the answer was written
C30_Witness ==
    /\ req = "bad"
    /\ status = 400
    /\ log = <<Write("json", Envelope("invalid_request_error", "Bad Request"), 400, TRUE)>>

-----------------------------------------------------------------------------
(* C31: in buffered mode the response carries at most one write in every   *)
(* state; once ProcessRequest has returned and writeResponse is done there *)
(* is exactly one write, a JSON body with Content-Type application/json    *)
(* whose status is the response's status: the 200 response when the        *)
(* adapter succeeded, one error envelope with its mapped status when it    *)
(* failed.                                                                 *)
BufferedAnswered == req = "buffered" /\ Returned /\ adapterRet \in {"ok", "err"}

C31_BufferedWritesOnce ==
    req = "buffered" =>
        /\ Len(log) <= 1
        /\ BufferedAnswered =>
             /\ Len(log) = 1
             /\ log[1].op = "json"
             /\ ctype = "application/json"
             /\ status = log[1].status
             /\ \/ /\ adapterRet = "ok"
                   /\ log[1].payload.t = "response"
                   /\ status = StatusOK
                \/ /\ adapterRet = "err"
                   /\ log[1].payload.t = "envelope"
                   /\ status = StatusForType(log[1].payload.type)
                   /\ status # StatusOK

C31_Witness ==
    /\ BufferedAnswered
    /\ adapterRet = "err"
    /\ log[1].payload.t = "envelope"
    /\ log[1].ok

-----------------------------------------------------------------------------
(* C32: an error of the adapter that is not an ErrorResponse is reported   *)
(* with type api_error. Returned by ProcessRequest or by                   *)
(* ProcessStreamingRequest, it is answered with one JSON envelope          *)
(* {message: "Internal Server Error", type: api_error} and status 500.     *)
(* Yielded by the chunk iterator, it is answered with the SSE error event  *)
(* whose data is the envelope {message: err.Error(), type: api_error},     *)
(* written after the chunk frames when the request context is not          *)
(* cancelled and no write fails; whatever data frame follows an error line *)
(* is that envelope.                                                       *)
UntypedReturned == adapterRet = "err" /\ adapterErr.t = "untyped"
UntypedYielded == LastYieldedIsError /\ yielded[Len(yielded)].err.t = "untyped"

-----------------------------------------------------------------------------
(* C33: in streaming mode a failed write of an SSE frame is the last write *)
(* of the handler: after a failed chunk frame no chunk, no error event and *)
(* no [DONE] is written, after a failed `event: error` line the error data *)
(* is not written, and the handler returns at once.                        *)
IsSSEWrite(w) == w.op \in {"data", "event", "raw"}
FailedSSEWrites == {i \in DOMAIN log : IsSSEWrite(log[i]) /\ ~log[i].ok}

C33_FailedWriteStops ==
    \A i \in FailedSSEWrites :
        /\ \A j \in DOMAIN log : j > i => ~IsSSEWrite(log[j])
        /\ i = Len(log)
        /\ Returned

\* a chunk frame failed to write after one frame was sent, and the handler returned
C33_Witness ==
    /\ Len(log) >= 2
    /\ IsChunkFrame(log[Len(log)])
    /\ ~log[Len(log)].ok
    /\ log[1].ok
    /\ Returned
    /\ ~ctxErr

-----------------------------------------------------------------------------
(* C34: toChatCompletionError returns nil exactly for the nil error. For a *)
(* non-nil error it returns an envelope: of the mapped upstream type, with *)
(* the upstream message, when the error is an upstream API error whose     *)
(* JSON parses; of type api_error, with the error's text, when it is an    *)
(* upstream API error whose JSON does not parse; of the mapped upstream    *)
(* type when its text is the streaming prefix followed by error JSON that  *)
(* parses; of type server_error, with the error's text, in every other     *)
(* case (a network failure or timeout, streaming text that does not        *)
(* parse). This holds in both revisions of the file.                       *)
MappedTypeIn(rev, anthropicType) ==
    IF anthropicType \in DOMAIN UpstreamErrorTable THEN UpstreamErrorTable[anthropicType]
    ELSE IF anthropicType = "request_too_large" /\ rev = "part_006"
      THEN "invalid_request_error"
      ELSE "api_error"

C34_ErrorNormalisationCases ==
    tin.op = "toChatCompletionError" =>
        LET err == tin.arg.err
            rev == tin.arg.rev
        IN  /\ tout.t = "nil" <=> err = NilError
            /\ err # NilError => tout.t = "envelope"
            /\ (err.kind = "api" /\ err.parses) =>
                 /\ tout.type = MappedTypeIn(rev, err.type)
                 /\ tout.message = err.message
            /\ (err.kind = "api" /\ ~err.parses) =>
                 /\ tout.type = "api_error"
                 /\ tout.message = err.text
            /\ (err.kind = "stream" /\ err.parses) =>
                 /\ tout.type = MappedTypeIn(rev, err.type)
                 /\ tout.message = err.message
            /\ (err.kind = "other" \/ (err.kind = "stream" /\ ~err.parses)) =>
                 /\ tout.type = "server_error"
                 /\ tout.message = err.text

\* an upstream API error whose body is no JSON came out as api_error
C34_Witness ==
    /\ tin.op = "toChatCompletionError"
    /\ tin.arg.err.kind = "api"
    /\ ~tin.arg.err.parses
    /\ tout.t = "envelope"
    /\ tout.type = "api_error"

-----------------------------------------------------------------------------
(* C35: a panic of the handler, raised at any point of the request, is     *)
(* caught by the Recovery middleware and answered with an HTTP 500         *)
(* response: whenever the middleware has recovered a panic, the status of  *)
(* the response is 500, also when SSE frames were sent before the panic,   *)
(* and the request is over.                                                *)
C35_PanicIs500 ==
    Panicked =>
        /\ Returned
        /\ status = StatusInternalServerError

-----------------------------------------------------------------------------
(* C36: fromContentParts, given the parts of a message, returns either one *)
(* block per part in the order of the parts, or an error and no blocks. It *)
(* fails whenever a part has a type that the role does not allow (user:    *)
(* text, image_url, file; assistant: text, refusal; tool, system and       *)
(* developer: text), and the error it returns is that of the first part    *)
(* that cannot be converted; for the roles other than user a part of a     *)
(* type that is not allowed is the only cause of failure. A text or        *)
(* refusal part gives the text block of its text. An empty string content  *)
(* gives no block and no error, a non-empty string one text block.         *)
AllowedPartTypes(role) ==
    CASE role = "user"      -> {"text", "image_url", "file"}
      [] role = "assistant" -> {"text", "refusal"}
      [] OTHER              -> {"text"}

\* what one part of a message of the role is converted to
PartResult(role, part) ==
    CASE role = "user"      -> UserPartBlock(part)
      [] role = "assistant" -> AssistantPartBlock(part)
      [] OTHER              -> TextOnlyPartBlock(part)

PartsGiven ==
    /\ tin.op = "fromContentParts"
    /\ tin.arg.form \in {"user", "assistant", "tool", "system", "developer"}

-----------------------------------------------------------------------------
(* C38: Authorizer.Exchange hands no request to the HTTP client and        *)
(* returns an error and no token when the context is already cancelled,    *)
(* when the verifier is empty, when the pasted code has no '#', or when    *)
(* the text after its first '#' differs from the verifier; it returns a    *)
(* token only when the request was sent and the token endpoint answered    *)
(* with status 200.                                                        *)
Exchanged == tin.op = "Exchange"

\* the pasted code is <code>#<state> with the state equal to the verifier
StateMatchesVerifier(codeWithState, verifier) ==
    \E i \in DOMAIN codeWithState :
        /\ codeWithState[i] = "#"
        /\ \A j \in 1..(i - 1) : codeWithState[j] # "#"
        /\ SubSeq(codeWithState, i + 1, Len(codeWithState)) = verifier

ExchangeRefusedInput ==
    \/ tin.arg.ctxDone
    \/ tin.arg.verifier = <<>>
    \/ \A i \in DOMAIN tin.arg.codeWithState : tin.arg.codeWithState[i] # "#"
    \/ ~StateMatchesVerifier(tin.arg.codeWithState, tin.arg.verifier)

C38_ExchangeGuards ==
    Exchanged =>
        /\ ExchangeRefusedInput =>
             /\ ~tout.request.sent
             /\ ~tout.ok /\ tout.err # "" /\ ~tout.token
        /\ tout.token =>
             /\ tout.ok
             /\ tout.request.sent
             /\ tin.arg.answer.transportOk
             /\ tin.arg.answer.statusCode = StatusOK
        /\ tout.ok <=> tout.token

\* a code whose state is not the verifier was refused although the endpoint would
\* have answered 200
C38_Witness ==
    /\ Exchanged
    /\ ~tin.arg.ctxDone
    /\ tin.arg.codeWithState = <<"c", "#", "c">>
    /\ tin.arg.verifier = <<"v">>
    /\ tin.arg.answer = EndpointAnswer(TRUE, StatusOK, TRUE)
    /\ tout.err = "state mismatch"
    /\ ~tout.request.sent

-----------------------------------------------------------------------------
(* C37: App.Start never calls the proxy's Shutdown more than once, and     *)
(* never before g.Wait() has returned. When the proxy started, Start has   *)
(* called Shutdown exactly once by the time it returns, whether the        *)
(* monitor ended on the cancelled context or on a runtime error of the     *)
(* proxy, and the context it passed was not cancelled at the call; it      *)
(* returns nil exactly when the monitor returned no runtime error and      *)
(* Shutdown returned no error, and the joined errors otherwise. When the   *)
(* proxy failed to start, Start returns the startup error and Shutdown was *)
(* not called.                                                             *)
StartReturned == appPc = "returned"
ProxyStarted == proxyErrCh # "none"
RuntimeError == monitor \in RuntimeErrors

C37_ShutdownOnce ==
    /\ Len(shutdownCalls) <= 1
    /\ shutdownCalls # <<>> => appPc \in {"in_shutdown", "returned"}
    /\ (StartReturned /\ ProxyStarted) =>
         /\ Len(shutdownCalls) = 1
         /\ shutdownCalls[1].ctx = "live"
         /\ startRet.kind \in {"nil", "join"}
         /\ startRet.kind = "nil" <=> (~RuntimeError /\ shutdownCalls[1].err = "nil")
         /\ RuntimeError =>
              \E i \in DOMAIN startRet.errs :
                  startRet.errs[i] = AppError("runtime", monitor)
         /\ shutdownCalls[1].err # "nil" =>
              \E i \in DOMAIN startRet.errs :
                  startRet.errs[i] = AppError("shutdown", shutdownCalls[1].err)
    /\ (StartReturned /\ ~ProxyStarted) =>
         /\ shutdownCalls = <<>>
         /\ startRet.kind = "startup"

\* the proxy reported a runtime error, Shutdown was called once with a live context
\* and failed too: Start returned both errors joined
C37_Witness ==
    /\ StartReturned
    /\ RuntimeError
    /\ ~appCtxDone
    /\ Len(shutdownCalls) = 1
    /\ shutdownCalls[1].ctx = "live"
    /\ shutdownCalls[1].err = "close failed"
    /\ startRet.kind = "join"
    /\ Len(startRet.errs) = 2

-----------------------------------------------------------------------------
(* C39: in readSecureInput the goroutine's send on resultCh never blocks:  *)
(* whenever the goroutine is at the send the buffer has room, whether the  *)
(* caller is still in its select or has returned. A caller that leaves the *)
(* select while the context is cancelled and no result is in the channel   *)
(* returns the context's error, and it returns that error only for a       *)
(* cancelled context. Once the context is cancelled the caller leaves the  *)
(* select whatever the reading goroutine does, also when term.ReadPassword *)
(* never returns.                                                          *)
SendHasRoom == reader = "send" => Len(resultCh) < ResultChCap

ReturnsContextError ==
    (/\ loginPc = "select"
     /\ loginPc' # "select"
     /\ loginCtxDone
     /\ resultCh = <<>>) => readRet' = ReadResult(<<>>, "context canceled")

C39_CancelUnblocksRead ==
    /\ [](SendHasRoom /\ Len(resultCh) <= ResultChCap)
    /\ [](readRet.err = "context canceled" => loginCtxDone)
    /\ [][ReturnsContextError]_vars
    /\ (loginPc = "select" /\ loginCtxDone) ~> (loginPc # "select")

\* readSecureInput returned the context's error while term.ReadPassword was still
\* blocked
C39_Witness ==
    /\ loginPc = "returned"
    /\ readRet = ReadResult(<<>>, "context canceled")
    /\ reader = "reading"
    /\ resultCh = <<>>

====
